---- MODULE Spec2Model ----
(***************************************************************************)
(* Verification model of the midi-node control core.                       *)
(*                                                                         *)
(*   SpecStorage : StorageManager (src/main.py) - preset records, bank     *)
(*                 records, reorder_presets / remove_preset and the bank   *)
(*                 integrity sweep.                                        *)
(*   SpecGesture : KeyboardInputManager (src/input.py) - the key hooks,    *)
(*                 the polling loop, edge handling and the timeout check.  *)
(*   SpecAction  : Action records (src/main.py) - from_dict, to_dict and   *)
(*                 execute of the action classes.                          *)
(*   SpecEditor  : the parameter editor screens (src/main.py) and          *)
(*                 IntNumberSelector (src/int_selector.py).                *)
(*   SpecNav     : MidiNodeDevice (src/main.py) - the main loop handing    *)
(*                 encoder events to the screen on top of the navigation   *)
(*                 stack, the screens' transitions, the preset they edit.  *)
(*   SpecStack   : SpecNav with StateContext.pop_state also called         *)
(*                 directly, with any depth.                               *)
(*   SpecDevice  : MidiNodeDevice, InputManager and UIManager              *)
(*                 (src/main.py) - the main thread, the capture thread and *)
(*                 the render thread, the event queue and the UI queue     *)
(*                 between them, start() and stop().  FairDevice adds the  *)
(*                 scheduling of the threads.                              *)
(*   SpecEpoch   : SpecGesture started when time.time() reads 0.           *)
(*   SpecInput   : the hooks of the Select key and of the encoder keys     *)
(*                 (src/input.py) beside the capture thread that polls     *)
(*                 the deque of edges and puts events on the event queue.  *)
(*   SpecStartup : StorageManager's load and list functions and            *)
(*                 MidiNodeDevice.__init__ over the files under ./data.    *)
(*   SpecList    : the scrolling lists - MenuState, ListItemReplaceState,  *)
(*                 StringCreatorState (src/main.py), Menu (src/menu.py),   *)
(*                 MenuPlacer (src/move-list.py), CharacterSelector        *)
(*                 (src/char_selector.py), ListOrdering                    *)
(*                 (src/list-ordering.py).                                 *)
(***************************************************************************)
EXTENDS Integers, Sequences, FiniteSets, TLC

VARIABLES
    \* ---- StorageManager: the files under presets/ and banks/ ----
    presets,      \* slot -> preset record, or NoRecord when NNN.json is absent
    banks,        \* bank id -> bank record, Malformed, or NoBank
    result,       \* how the last StorageManager call ended
    call,         \* the last StorageManager call (observer)
    before,       \* the files as they were when that call started (observer)
    ncalls,       \* number of calls made so far
    \* ---- KeyboardInputManager ----
    key_states,   \* key -> BOOLEAN, "is the key already down"
    buttons,      \* key -> timing record of add_button
    event_queue,  \* deque of MockEvent <<key, edge>>
    now,          \* time.time(), in polling periods
    pc,           \* position of the loop of start(): "run" or "sleep"
    log,          \* key -> sequence of [ev, at] passed to _fire (observer)
    accepted,     \* key -> number of falling edges received while up (observer)
    raw,          \* the last raw edge the key hooks received (observer)
    edges,        \* number of raw edges received so far
    \* ---- action records ----
    record,       \* the serialized record of one action, as stored
    action,       \* the action in memory, NotLoaded before the load
    dumps,        \* the records written back so far (observer)
    outcome,      \* how the last execute() of the action ended (observer)
    aphase,       \* "stored" or "loaded"
    \* ---- parameter editors ----
    param,        \* the ActionParam the editor is bound to
    editor,       \* the editor screen; after it was popped, as it was left
    eopen,        \* TRUE while the editor is on top of the stack
    trail,        \* the next / prev steps of the integer editor (observer)
    opens,        \* number of times the editor was opened
    \* ---- navigation ----
    state_stack,  \* StateContext._state_stack, bottom first
    controls,     \* preset.controls of the loaded preset
    preset_dir,   \* the numbers of the files under presets/
    current_preset_index,
    adds,         \* number of items created through "Add Item"
    raised,       \* the exception that ended the main loop, "none" if none
    navlog,       \* the calls made while the last event was handled (observer)
    \* ---- the three workers ----
    shutdown_event, \* threading.Event of MidiNodeDevice
    device_queue, \* MidiNodeDevice.event_queue
    ui_queue,     \* MidiNodeDevice.ui_queue
    lcd,          \* the calls made on the display, in order (observer)
    main_thread,  \* position of the main thread in start() / stop()
    input_thread, \* position of the InputManager thread
    ui_thread,    \* position of the UIManager thread
    put_log,      \* the events put on the event queue, in order (observer)
    got_log,      \* the events handed to handle_event, in order (observer)
    ui_log,       \* the commands put on the UI queue, in order (observer)
    inputs,       \* number of inputs so far
    \* ---- startup: the files under ./data ----
    disk,         \* the preset files, the bank files and the two marker files
    returned,     \* what the last StorageManager call or the startup gave
    \* ---- list widgets ----
    widget,       \* one list-like screen or standalone widget
    last_step     \* the last down / up step and the widget before it (observer)

storageVars == <<presets, banks, result, call, before, ncalls>>
gestureVars == <<key_states, buttons, event_queue, now, pc, log, accepted, raw, edges>>
actionVars == <<record, action, dumps, outcome, aphase>>
editorVars == <<param, editor, eopen, trail, opens>>
navVars == <<state_stack, controls, preset_dir, current_preset_index, adds, raised, navlog>>
deviceVars == <<shutdown_event, device_queue, ui_queue, lcd, main_thread, input_thread,
                ui_thread, put_log, got_log, ui_log, inputs>>
startVars == <<disk, returned>>
listVars == <<widget, last_step>>
vars == <<presets, banks, result, call, before, ncalls,
          key_states, buttons, event_queue, now, pc, log, accepted, raw, edges,
          record, action, dumps, outcome, aphase,
          param, editor, eopen, trail, opens,
          state_stack, controls, preset_dir, current_preset_index, adds, raised,
          navlog,
          shutdown_event, device_queue, ui_queue, lcd, main_thread, input_thread,
          ui_thread, put_log, got_log, ui_log, inputs,
          disk, returned, widget, last_step>>
\* the variables of the other subsystems
notStorage == <<gestureVars, actionVars, editorVars, navVars, deviceVars, startVars, listVars>>
notGesture == <<storageVars, actionVars, editorVars, navVars, deviceVars, startVars, listVars>>
notAction == <<storageVars, gestureVars, editorVars, navVars, deviceVars, startVars, listVars>>
notEditor == <<storageVars, gestureVars, actionVars, navVars, deviceVars, startVars, listVars>>
notNav == <<storageVars, gestureVars, actionVars, editorVars, deviceVars, startVars, listVars>>
notStart == <<storageVars, gestureVars, actionVars, editorVars, navVars, deviceVars,
              listVars>>
notList == <<storageVars, gestureVars, actionVars, editorVars, navVars, deviceVars,
             startVars>>

Range(s) == {s[i] : i \in DOMAIN s}

\* the action subsystem while another subsystem is run
ActionIdle ==
    /\ record = <<>>
    /\ action = <<>>
    /\ dumps = <<>>
    /\ outcome = <<>>
    /\ aphase = "idle"

\* the editor subsystem while another subsystem is run
EditorIdle ==
    /\ param = <<>>
    /\ editor = <<>>
    /\ eopen = FALSE
    /\ trail = <<>>
    /\ opens = 0

\* the navigation subsystem while another subsystem is run
NavIdle ==
    /\ state_stack = <<>>
    /\ controls = <<>>
    /\ preset_dir = {}
    /\ current_preset_index = 0
    /\ adds = 0
    /\ raised = "none"
    /\ navlog = <<>>

\* the workers while another subsystem is run
DeviceIdle ==
    /\ shutdown_event = FALSE
    /\ device_queue = <<>>
    /\ ui_queue = <<>>
    /\ lcd = <<>>
    /\ main_thread = "idle"
    /\ input_thread = "idle"
    /\ ui_thread = "idle"
    /\ put_log = <<>>
    /\ got_log = <<>>
    /\ ui_log = <<>>
    /\ inputs = 0

\* the startup subsystem while another subsystem is run
StartIdle ==
    /\ disk = <<>>
    /\ returned = <<>>

\* the list widgets while another subsystem is run
ListIdle ==
    /\ widget = <<>>
    /\ last_step = <<>>

(***************************************************************************)
(*                              STORAGE                                    *)
(***************************************************************************)

\* Bounds of the storage model.
MaxBankLen == 2
MaxCalls == 1

Slots == {5, 7, 12}
BankIds == {1, 2}
\* the record saved in each slot at the start; records differ from slot to slot
SavedRecord == (5 :> "five") @@ (7 :> "seven") @@ (12 :> "twelve")
BankNames == {"B"}
Modes == {"move", "clone"}

\* a slot file that does not exist
NoRecord == "absent"
\* new_num = None, "deleted"
None == 0

\* a bank file: absent, present but not a bank record, or a bank record
NoBank == [kind |-> "absent", name |-> "", presets |-> <<>>]
Malformed == [kind |-> "malformed", name |-> "", presets |-> <<>>]

SeqsUpTo(S, n) == UNION {[1..k -> S] : k \in 0..n}

BankRecords == [kind : {"bank"}, name : BankNames,
                presets : SeqsUpTo(Slots, MaxBankLen)]

\* Bank.from_dict succeeds on this file
Loadable(b) == b.kind = "bank"

source_path_exists_unchecked(p, source_num) == TRUE

\* source_path.exists() in reorder_presets
source_path_exists(p, source_num) == p[source_num] # NoRecord

path_exists_unchecked(p, number) == TRUE

\* path.exists() in remove_preset
path_exists(p, number) == p[number] # NoRecord

\* shutil.move on two slot files: a rename that overwrites the target;
\* renaming a file onto itself leaves it as it is.
shutil_move(p, source_num, target_num) ==
    IF source_num = target_num THEN p
    ELSE [p EXCEPT ![target_num] = p[source_num], ![source_num] = NoRecord]

shutil_copy_unlinking(p, source_num, target_num) ==
    [p EXCEPT ![target_num] = p[source_num], ![source_num] = NoRecord]

\* shutil.copy on two slot files; the same file twice raises SameFileError
\* before anything is written.
shutil_copy(p, source_num, target_num) ==
    [p EXCEPT ![target_num] = p[source_num]]

RECURSIVE updated_list_appending(_, _, _)
updated_list_appending(preset_numbers, old_num, new_num) ==
    IF preset_numbers = <<>> THEN <<>>
    ELSE LET p_num == Head(preset_numbers)
             rest == updated_list_appending(Tail(preset_numbers), old_num, new_num)
         IN IF p_num = old_num
            THEN (IF new_num # None THEN rest \o <<new_num>> ELSE rest)
            ELSE <<p_num>> \o rest

\* the inner loop of _update_banks_on_preset_change: builds updated_list
RECURSIVE updated_list(_, _, _)
updated_list(preset_numbers, old_num, new_num) ==
    IF preset_numbers = <<>> THEN <<>>
    ELSE LET p_num == Head(preset_numbers)
             rest == updated_list(Tail(preset_numbers), old_num, new_num)
         IN IF p_num = old_num
            THEN (IF new_num # None THEN <<new_num>> \o rest ELSE rest)
            ELSE <<p_num>> \o rest

\* one iteration of the loop over bank files, for a bank that loads
sweep_bank(bank, old_num, new_num) ==
    IF old_num \in Range(bank.presets)
    THEN [bank EXCEPT !.presets = updated_list(bank.presets, old_num, new_num)]
    ELSE bank

\* _update_banks_on_preset_change over the bank files in the order glob
\* yields them; load_bank raises on a file that is not a bank record and the
\* loop ends there, the banks saved so far staying saved.
RECURSIVE update_banks_on_preset_change(_, _, _, _)
update_banks_on_preset_change(b, order, old_num, new_num) ==
    IF order = <<>> THEN [banks |-> b, raised |-> FALSE]
    ELSE LET bank_id == Head(order)
         IN IF b[bank_id] = Malformed
            THEN [banks |-> b, raised |-> TRUE]
            ELSE update_banks_on_preset_change(
                     [b EXCEPT ![bank_id] = sweep_bank(b[bank_id], old_num, new_num)],
                     Tail(order), old_num, new_num)

\* bank_dir.glob("*.json"): the existing bank files, in an order the
\* file system chooses
bank_files(b) == {id \in BankIds : b[id] # NoBank}
glob_orders(b) ==
    LET S == bank_files(b)
        n == Cardinality(S)
    IN {f \in [1..n -> S] : \A i, j \in 1..n : i # j => f[i] # f[j]}

Snapshot == [presets |-> presets, banks |-> banks]

\* StorageManager.reorder_presets(source_num, target_num, mode)
reorder_presets(source_num, target_num, mode) ==
    /\ ncalls < MaxCalls
    /\ ncalls' = ncalls + 1
    /\ call' = [op |-> "reorder", source |-> source_num, target |-> target_num,
                mode |-> mode]
    /\ before' = Snapshot
    /\ IF ~source_path_exists(presets, source_num)
       THEN /\ result' = "FileNotFoundError"
            /\ UNCHANGED <<presets, banks>>
       ELSE IF mode = "move"
       THEN /\ presets' = shutil_move(presets, source_num, target_num)
            /\ \E order \in glob_orders(banks) :
                 LET r == update_banks_on_preset_change(banks, order,
                                                        source_num, target_num)
                 IN /\ banks' = r.banks
                    /\ result' = IF r.raised THEN "LoadError" ELSE "ok"
       ELSE IF source_num = target_num
       THEN /\ result' = "SameFileError"
            /\ UNCHANGED <<presets, banks>>
       ELSE /\ presets' = shutil_copy(presets, source_num, target_num)
            /\ result' = "ok"
            /\ UNCHANGED banks
    /\ UNCHANGED notStorage

\* StorageManager.remove_preset(number)
remove_preset(number) ==
    /\ ncalls < MaxCalls
    /\ ncalls' = ncalls + 1
    /\ call' = [op |-> "remove", source |-> number, target |-> None,
                mode |-> "none"]
    /\ before' = Snapshot
    /\ IF path_exists(presets, number)
       THEN /\ presets' = [presets EXCEPT ![number] = NoRecord]
            /\ \E order \in glob_orders(banks) :
                 LET r == update_banks_on_preset_change(banks, order, number, None)
                 IN /\ banks' = r.banks
                    /\ result' = IF r.raised THEN "LoadError" ELSE "ok"
       ELSE /\ result' = "ok"
            /\ UNCHANGED <<presets, banks>>
    /\ UNCHANGED notStorage

\* every slot a loadable bank lists has a preset record
References(b, p) ==
    \A id \in BankIds : Loadable(b[id]) =>
        \A i \in DOMAIN b[id].presets : p[b[id].presets[i]] # NoRecord

GestureIdle ==
    /\ key_states = <<>>
    /\ buttons = <<>>
    /\ event_queue = <<>>
    /\ now = 1
    /\ pc = "run"
    /\ log = <<>>
    /\ accepted = <<>>
    /\ raw = <<>>
    /\ edges = 0

InitStorage ==
    /\ presets \in {p \in [Slots -> Range(SavedRecord) \cup {NoRecord}] :
            \A n \in Slots : p[n] \in {SavedRecord[n], NoRecord}}
    /\ banks \in [BankIds -> BankRecords \cup {Malformed, NoBank}]
    /\ References(banks, presets)
    /\ result = "none"
    /\ call = [op |-> "none", source |-> None, target |-> None, mode |-> "none"]
    /\ before = Snapshot
    /\ ncalls = 0
    /\ GestureIdle
    /\ ActionIdle
    /\ EditorIdle
    /\ NavIdle
    /\ DeviceIdle
    /\ StartIdle
    /\ ListIdle

NextStorage ==
    \/ \E s \in Slots, t \in Slots, mode \in Modes : reorder_presets(s, t, mode)
    \/ \E n \in Slots : remove_preset(n)

SpecStorage == InitStorage /\ [][NextStorage]_vars

(***************************************************************************)
(*                              GESTURES                                   *)
(***************************************************************************)

\* Bounds of the gesture model.
MaxEdges == 8
MaxTime == 8

\* add_button(key_name, actions, tap_time=0.25, long_press=0.6), in polling
\* periods of the loop of start(); the ratio keeps tap_time < long_press.
TapTime == 2
LongPressTime == 4

Keys == {"1"}
Edges == {"FALLING", "RISING"}

\* a timestamp that is None
NoTime == -1

\* "if data[...]:" for a timestamp: None and the time 0 are false
truthy(t) == t # NoTime /\ t # 0

\* add_button: the timing record of one key
NewButton == [press_timestamp |-> NoTime, tap_count |-> 0,
              tap_timer_start |-> NoTime, long_press_fired |-> FALSE]

\* _fire(data, event_type): the event is recorded with the time it fired at
Fired(ev, t) == [ev |-> ev, at |-> t]

already_down_ignored(ks, key) == FALSE

\* "if self.key_states[key]: return"
already_down(ks, key) == ks[key]

\* KeyboardInputManager._on_key_event(key, edge), run by the key hooks
on_key_event(key, edge) ==
    /\ edges < MaxEdges
    /\ edges' = edges + 1
    /\ raw' = <<key, edge>>
    /\ accepted' = IF edge = "FALLING" /\ ~key_states[key]
                   THEN [accepted EXCEPT ![key] = @ + 1] ELSE accepted
    /\ IF edge = "FALLING" /\ already_down(key_states, key)
       THEN UNCHANGED <<key_states, event_queue>>
       ELSE /\ key_states' = [key_states EXCEPT ![key] = (edge = "FALLING")]
            /\ event_queue' = Append(event_queue, <<key, edge>>)
    /\ UNCHANGED <<buttons, now, pc, log>>
    /\ UNCHANGED notGesture

\* the FALLING branch of _handle_mock_hardware_event
on_falling(data, t) ==
    [data EXCEPT !.press_timestamp = t, !.long_press_fired = FALSE]

on_rising_keeping_timer(data, t) ==
    IF truthy(data.press_timestamp)
    THEN IF t - data.press_timestamp < LongPressTime
         THEN [data EXCEPT !.tap_count = @ + 1,
                           !.tap_timer_start = IF @ = NoTime THEN t ELSE @,
                           !.press_timestamp = NoTime]
         ELSE [data EXCEPT !.press_timestamp = NoTime]
    ELSE data

\* the RISING branch of _handle_mock_hardware_event
on_rising(data, t) ==
    IF truthy(data.press_timestamp)
    THEN IF t - data.press_timestamp < LongPressTime
         THEN [data EXCEPT !.tap_count = @ + 1, !.tap_timer_start = t,
                           !.press_timestamp = NoTime]
         ELSE [data EXCEPT !.press_timestamp = NoTime]
    ELSE data

\* what _handle_mock_hardware_event passes to _fire
fired_by_event(data, edge, t) ==
    IF edge = "FALLING" THEN <<Fired("PRESS", t)>>
    ELSE IF truthy(data.press_timestamp) THEN <<Fired("RELEASE", t)>>
    ELSE <<>>

\* one pass of the inner loop of start(): popleft and
\* _handle_mock_hardware_event(event)
handle_mock_hardware_event ==
    /\ pc = "run"
    /\ event_queue # <<>>
    /\ LET event == Head(event_queue)
           key == event[1]
           edge == event[2]
           data == buttons[key]
       IN /\ event_queue' = Tail(event_queue)
          /\ buttons' = [buttons EXCEPT ![key] =
                            IF edge = "FALLING" THEN on_falling(data, now)
                            ELSE on_rising(data, now)]
          /\ log' = [log EXCEPT ![key] = @ \o fired_by_event(data, edge, now)]
    /\ UNCHANGED <<key_states, now, pc, accepted, raw, edges>>
    /\ UNCHANGED notGesture

gestures_get_zero_based(tap_count) ==
    IF tap_count = 0 THEN "TAP"
    ELSE IF tap_count = 1 THEN "DOUBLE_TAP"
    ELSE "TRIPLE_TAP"

\* gestures.get(data["tap_count"], ButtonEvent.TRIPLE_TAP)
gestures_get(tap_count) ==
    IF tap_count = 1 THEN "TAP"
    ELSE IF tap_count = 2 THEN "DOUBLE_TAP"
    ELSE "TRIPLE_TAP"

\* the long-press test of _check_all_timeouts
long_press_due(data, t) ==
    /\ truthy(data.press_timestamp)
    /\ ~data.long_press_fired
    /\ (t - data.press_timestamp) >= LongPressTime

after_long_press_check(data, t) ==
    IF long_press_due(data, t)
    THEN [data EXCEPT !.long_press_fired = TRUE, !.tap_count = 0]
    ELSE data

\* the multi-tap test of _check_all_timeouts
tap_due(data, t) ==
    /\ data.tap_count > 0
    /\ truthy(data.tap_timer_start)
    /\ (t - data.tap_timer_start) > TapTime

after_tap_check(data, t) ==
    IF tap_due(data, t)
    THEN [data EXCEPT !.tap_count = 0, !.tap_timer_start = NoTime]
    ELSE data

\* the body of the loop of _check_all_timeouts for one key
check_timeouts(data, t) == after_tap_check(after_long_press_check(data, t), t)

fired_by_timeouts(data, t) ==
    LET d1 == after_long_press_check(data, t)
    IN (IF long_press_due(data, t) THEN <<Fired("LONG_PRESS", t)>> ELSE <<>>)
       \o (IF tap_due(d1, t) THEN <<Fired(gestures_get(d1.tap_count), t)>>
           ELSE <<>>)

\* _check_all_timeouts(), called once the queue has been emptied
check_all_timeouts ==
    /\ pc = "run"
    /\ event_queue = <<>>
    /\ buttons' = [key \in Keys |-> check_timeouts(buttons[key], now)]
    /\ log' = [key \in Keys |-> log[key] \o fired_by_timeouts(buttons[key], now)]
    /\ pc' = "sleep"
    /\ UNCHANGED <<key_states, event_queue, now, accepted, raw, edges>>
    /\ UNCHANGED notGesture

\* time.sleep(0.01): one polling period
sleep ==
    /\ pc = "sleep"
    /\ now < MaxTime
    /\ now' = now + 1
    /\ pc' = "run"
    /\ UNCHANGED <<key_states, buttons, event_queue, log, accepted, raw, edges>>
    /\ UNCHANGED notGesture

StorageIdle ==
    /\ presets = [n \in Slots |-> NoRecord]
    /\ banks = [id \in BankIds |-> NoBank]
    /\ result = "none"
    /\ call = [op |-> "none", source |-> None, target |-> None, mode |-> "none"]
    /\ before = Snapshot
    /\ ncalls = 0

\* KeyboardInputManager() followed by add_button for every key
InitGesture ==
    /\ key_states = [key \in Keys |-> FALSE]
    /\ buttons = [key \in Keys |-> NewButton]
    /\ event_queue = <<>>
    /\ now = 1
    /\ pc = "run"
    /\ log = [key \in Keys |-> <<>>]
    /\ accepted = [key \in Keys |-> 0]
    /\ raw = <<>>
    /\ edges = 0
    /\ StorageIdle
    /\ ActionIdle
    /\ EditorIdle
    /\ NavIdle
    /\ DeviceIdle
    /\ StartIdle
    /\ ListIdle

\* the same construction at the moment the clock reads 0
InitEpoch ==
    /\ key_states = [key \in Keys |-> FALSE]
    /\ buttons = [key \in Keys |-> NewButton]
    /\ event_queue = <<>>
    /\ now = 0
    /\ pc = "run"
    /\ log = [key \in Keys |-> <<>>]
    /\ accepted = [key \in Keys |-> 0]
    /\ raw = <<>>
    /\ edges = 0
    /\ StorageIdle
    /\ ActionIdle
    /\ EditorIdle
    /\ NavIdle
    /\ DeviceIdle
    /\ StartIdle
    /\ ListIdle

NextGesture ==
    \/ \E key \in Keys, edge \in Edges : on_key_event(key, edge)
    \/ handle_mock_hardware_event
    \/ check_all_timeouts
    \/ sleep

SpecGesture == InitGesture /\ [][NextGesture]_vars

\* the gesture recognizer started when time.time() is 0
SpecEpoch == InitEpoch /\ [][NextGesture]_vars

(***************************************************************************)
(*                           ACTION RECORDS                                *)
(***************************************************************************)

\* Bounds of the action model: length of the action list of the outermost
\* composite, and of a composite nested inside it.
MaxActions == 2
MaxInner == 1
\* number of times the action is written back
MaxSaves == 2

\* a key a record does not have / a parameter an action does not have
MissingStr == "<missing>"
MissingInt == -1

\* defaults of InfoAction, CCAction and PCAction
InfoDefault == "Info"
CCDefault == 127
PCDefault == 0

\* ActionRegistry._registry, filled by Action.__init_subclass__
Registry == {"info", "cc", "pc", "composite"}
UnknownTypes == {"bogus"}

\* the class registered under a type tag
action_cls(action_type) ==
    CASE action_type = "info" -> "InfoAction"
      [] action_type = "cc" -> "CCAction"
      [] action_type = "pc" -> "PCAction"
      [] action_type = "composite" -> "CompositeAction"

\* cls.TYPE
TYPE(cls) ==
    CASE cls = "InfoAction" -> "info"
      [] cls = "CCAction" -> "cc"
      [] cls = "PCAction" -> "pc"
      [] cls = "CompositeAction" -> "composite"
      [] cls = "Action" -> "base"

ActionClasses == {"Action", "InfoAction", "CCAction", "PCAction", "CompositeAction"}

\* A serialized record and an in-memory action are both written
\* [type, info, cc, pc, actions]: for a record `type` is the value of its
\* "type" key, for an object it is its class.
Rec(t, info, cc, p, actions) ==
    [type |-> t, info |-> info, cc |-> cc, pc |-> p, actions |-> actions]

\* Python's None
NoneValue == Rec("NoneType", MissingStr, MissingInt, MissingInt, <<>>)

\* Action(context=context): the base class, no parameter
BaseAction == Rec("Action", MissingStr, MissingInt, MissingInt, <<>>)

isinstance_Action(x) == x.type \in ActionClasses
isinstance_dict(x) == x.type \in Registry \cup UnknownTypes \cup {"base"}
has_to_dict(x) == isinstance_Action(x)

RECURSIVE to_dict(_)
RECURSIVE list_to_dict(_)
\* Action.list_to_dict
list_to_dict(items) ==
    [i \in DOMAIN items |->
        IF has_to_dict(items[i]) THEN to_dict(items[i]) ELSE items[i]]

\* Action.to_dict: the type tag and one key per parameter
to_dict(a) ==
    Rec(TYPE(a.type), a.info, a.cc, a.pc, list_to_dict(a.actions))

RECURSIVE construct(_, _)
RECURSIVE fixed_actions(_)
RECURSIVE create_action_by_type(_, _)

\* CompositeAction.create_action_by_type
create_action_by_type(action_type, data) ==
    IF action_type \in Registry THEN construct(action_cls(action_type), data)
    ELSE NoneValue

\* the loop of CompositeAction.__init__
fixed_actions(actions) ==
    IF actions = <<>> THEN <<>>
    ELSE LET item == Head(actions)
         IN (IF isinstance_Action(item) THEN <<item>>
             ELSE IF isinstance_dict(item)
                  THEN <<create_action_by_type(item.type, item)>>
                  ELSE <<>>)
            \o fixed_actions(Tail(actions))

\* action_cls(context=context, **data): the constructors
construct(cls, data) ==
    CASE cls = "InfoAction" ->
           Rec(cls, IF data.info = MissingStr THEN InfoDefault ELSE data.info,
               MissingInt, MissingInt, <<>>)
      [] cls = "CCAction" ->
           Rec(cls, MissingStr,
               IF data.cc = MissingInt THEN CCDefault ELSE data.cc,
               MissingInt, <<>>)
      [] cls = "PCAction" ->
           Rec(cls, MissingStr, MissingInt,
               IF data.pc = MissingInt THEN PCDefault ELSE data.pc, <<>>)
      [] cls = "CompositeAction" ->
           Rec(cls, MissingStr, MissingInt, MissingInt,
               fixed_actions(data.actions))

\* Action.from_dict
from_dict(data) ==
    IF data.type \in Registry THEN construct(action_cls(data.type), data)
    ELSE BaseAction

\* DeviceContext.show_info(value): the INFO_MESSAGE put on the event queue
InfoMessage(a) == [info |-> a.info, cc |-> a.cc, pc |-> a.pc]

Returned(shown) == [raised |-> "none", shown |-> shown]
Raised(error, shown) == [raised |-> error, shown |-> shown]

RECURSIVE execute(_)
RECURSIVE execute_all(_, _)
\* the loop of CompositeAction.execute, which the first exception leaves
execute_all(actions, shown) ==
    IF actions = <<>> THEN Returned(shown)
    ELSE LET r == execute(Head(actions))
         IN IF r.raised # "none" THEN Raised(r.raised, shown \o r.shown)
            ELSE execute_all(Tail(actions), shown \o r.shown)

\* action.execute()
execute(a) ==
    CASE a.type \in {"InfoAction", "CCAction", "PCAction"} ->
           Returned(<<InfoMessage(a)>>)
      [] a.type = "CompositeAction" -> execute_all(a.actions, <<>>)
      [] a.type = "Action" -> Raised("NotImplementedError", <<>>)
      [] a.type = "NoneType" -> Raised("AttributeError", <<>>)

\* the serialized records the storage can hold for one action
LeafRecords ==
    {Rec("info", "x", MissingInt, MissingInt, <<>>),
     Rec("cc", MissingStr, MissingInt, MissingInt, <<>>),
     Rec("pc", MissingStr, MissingInt, 3, <<>>)}
    \cup {Rec(t, MissingStr, MissingInt, MissingInt, <<>>) : t \in UnknownTypes}
CompositeRecords(children, n) ==
    {Rec("composite", MissingStr, MissingInt, MissingInt, l) :
        l \in SeqsUpTo(children, n)}
ActionRecords ==
    LeafRecords
    \cup CompositeRecords(LeafRecords \cup CompositeRecords(LeafRecords, MaxInner),
                          MaxActions)

\* no action loaded yet / no action executed yet
NotLoaded == Rec("unloaded", MissingStr, MissingInt, MissingInt, <<>>)
NoOutcome == [raised |-> "not executed", shown |-> <<>>]

\* ButtonControlModel.from_dict: the action of a control event is loaded
\* from its record
load_action ==
    /\ aphase = "stored"
    /\ action' = from_dict(record)
    /\ outcome' = NoOutcome
    /\ aphase' = "loaded"
    /\ UNCHANGED <<record, dumps>>
    /\ UNCHANGED notAction

\* BaseControlModel.to_dict: the action is written back as a record
save_action ==
    /\ aphase = "loaded"
    /\ Len(dumps) < MaxSaves
    /\ record' = to_dict(action)
    /\ dumps' = Append(dumps, to_dict(action))
    /\ outcome' = NoOutcome
    /\ aphase' = "stored"
    /\ UNCHANGED action
    /\ UNCHANGED notAction

\* InputManager: self.controls[c].actions[event].execute()
execute_action ==
    /\ aphase = "loaded"
    /\ outcome' = execute(action)
    /\ UNCHANGED <<record, action, dumps, aphase>>
    /\ UNCHANGED notAction

InitAction ==
    /\ record \in ActionRecords
    /\ action = NotLoaded
    /\ dumps = <<>>
    /\ outcome = NoOutcome
    /\ aphase = "stored"
    /\ StorageIdle
    /\ GestureIdle
    /\ EditorIdle
    /\ NavIdle
    /\ DeviceIdle
    /\ StartIdle
    /\ ListIdle

NextAction ==
    \/ load_action
    \/ save_action
    \/ execute_action

SpecAction == InitAction /\ [][NextAction]_vars

(***************************************************************************)
(*                        PARAMETER EDITORS                                *)
(***************************************************************************)

\* Bounds of the editor model: the largest option and value of an integer
\* parameter, the number of next / prev steps recorded, the length of a typed
\* string, and the number of times the editor is opened.
MaxValue == 2
MaxOps == 3
MaxChars == 1
MaxOpens == 2

\* MenuState.MAX_LINES and StringCreatorState.VISIBLE_WIDTH
MAX_LINES == 4
VISIBLE_WIDTH == 20

\* values of the four leaf parameter types
IntValue(n) == [int |-> n]
StrValue(s) == [str |-> s]
BoolValue(b) == [bool |-> b]
EnumValue(m) == [enum |-> m]

\* the members of the Enum class of an enum parameter, in definition order
EnumMembers == <<"RED", "BLUE">>
\* the two command characters StringCreatorState puts before the alphabet:
\* the tick (U+221A) that ends the editing and the left arrow (U+2190)
Tick == "tick"
LeftArrow == "left arrow"
\* param.options["characters"] of a string parameter
Characters == <<"a", " ">>

\* ActionParam(name, param_type, value, options)
ActionParam(param_type, value, options) ==
    [param_type |-> param_type, value |-> value, options |-> options]

IntParams ==
    {ActionParam("int", IntValue(v), [min_value |-> lo, max_value |-> hi]) :
        v \in 0..(MaxValue + 1), lo \in 0..MaxValue, hi \in 0..MaxValue}
\* a character of a stored string that is not in the declared character set
\* (Action.from_dict takes the stored value as it is)
StoredCharacters == Range(Characters) \cup {"!"}
StrParams ==
    {ActionParam("str", StrValue(s), [characters |-> Characters]) :
        s \in SeqsUpTo(StoredCharacters, MaxChars)}
BoolParams ==
    {ActionParam("bool", BoolValue(b), [true_value |-> "True", false_value |-> "False"]) :
        b \in BOOLEAN}
EnumParams ==
    {ActionParam("enum", EnumValue(m), [members |-> EnumMembers]) :
        m \in Range(EnumMembers)}

\* IntNumberSelectorState.__init__ through ActionParamIntSelectorState.__init__
ActionParamIntSelectorState(p) ==
    [cls |-> "ActionParamIntSelectorState",
     min_value |-> p.options.min_value, max_value |-> p.options.max_value,
     value |-> p.value.int]

\* IntNumberSelector.__init__ of int_selector.py (min_value <= max_value,
\* ValueError otherwise)
IntNumberSelector(min_value, max_value) ==
    [cls |-> "IntNumberSelector",
     min_value |-> min_value, max_value |-> max_value, value |-> min_value]

\* StringCreatorState.__init__ through ActionParamStringSelectorState.__init__
ActionParamStringSelectorState(p) ==
    [cls |-> "ActionParamStringSelectorState",
     characters |-> <<Tick, LeftArrow>> \o p.options.characters,
     selected_index |-> 0, scroll_offset |-> 0, chars |-> p.value.str]

\* BooleanSelectorState.__init__ through ActionParamBoolSelectorState.__init__
ActionParamBoolSelectorState(p) ==
    [cls |-> "ActionParamBoolSelectorState",
     items |-> <<p.options.true_value, p.options.false_value>>,
     selected_index |-> 0, scroll_offset |-> 0, selected_value |-> p.value]

\* EnumSelectorState.__init__ through ActionParamEnumSelectorState.__init__
ActionParamEnumSelectorState(p) ==
    [cls |-> "ActionParamEnumSelectorState",
     items |-> p.options.members,
     selected_index |-> 0, scroll_offset |-> 0, selected_value |-> p.value]

\* the transition ActionEditorState.on_enter builds for a parameter
editor_for(p) ==
    CASE p.param_type = "bool" -> ActionParamBoolSelectorState(p)
      [] p.param_type = "int" -> ActionParamIntSelectorState(p)
      [] p.param_type = "str" -> ActionParamStringSelectorState(p)
      [] p.param_type = "enum" -> ActionParamEnumSelectorState(p)

IntEditors == {"ActionParamIntSelectorState", "IntNumberSelector"}
MenuEditors == {"ActionParamBoolSelectorState", "ActionParamEnumSelectorState"}

next_overshooting(e) ==
    IF e.value > e.max_value THEN [e EXCEPT !.value = e.min_value]
    ELSE [e EXCEPT !.value = @ + 1]

\* IntNumberSelectorState._next, IntNumberSelector.next
next(e) ==
    IF e.value >= e.max_value THEN [e EXCEPT !.value = e.min_value]
    ELSE [e EXCEPT !.value = @ + 1]

\* IntNumberSelectorState._prev, IntNumberSelector.prev
prev(e) ==
    IF e.value <= e.min_value THEN [e EXCEPT !.value = e.max_value]
    ELSE [e EXCEPT !.value = @ - 1]

\* MenuState._down
MenuState_down(s) ==
    IF s.selected_index >= Len(s.items) - 1 THEN s
    ELSE LET i == s.selected_index + 1
         IN [s EXCEPT !.selected_index = i,
                      !.scroll_offset = IF i >= @ + MAX_LINES THEN @ + 1 ELSE @]

\* MenuState._up
MenuState_up(s) ==
    IF s.selected_index <= 0 THEN s
    ELSE LET i == s.selected_index - 1
         IN [s EXCEPT !.selected_index = i,
                      !.scroll_offset = IF i < @ THEN @ - 1 ELSE @]

\* StringCreatorState._next
StringCreatorState_next(s) ==
    IF s.selected_index >= Len(s.characters) - 1 THEN s
    ELSE LET i == s.selected_index + 1
         IN [s EXCEPT !.selected_index = i,
                      !.scroll_offset = IF i >= @ + VISIBLE_WIDTH THEN @ + 1 ELSE @]

\* StringCreatorState._prev
StringCreatorState_prev(s) ==
    IF s.selected_index <= 0 THEN s
    ELSE LET i == s.selected_index - 1
         IN [s EXCEPT !.selected_index = i,
                      !.scroll_offset = IF i < @ THEN @ - 1 ELSE @]

\* MenuState._get_selected, StringCreatorState._get_selected (0-based index)
get_selected(l, selected_index) == l[selected_index + 1]

\* StringCreatorState._add_char
add_char(s) == [s EXCEPT !.chars = Append(@, get_selected(s.characters, s.selected_index))]
\* StringCreatorState._backspace
backspace(s) ==
    IF s.chars = <<>> THEN s ELSE [s EXCEPT !.chars = SubSeq(@, 1, Len(@) - 1)]

\* the "Select" branch of BooleanSelectorState / EnumSelectorState
\* .handle_event: self.selected_value = self.transitions[selected]
select_item(s) ==
    LET selected == get_selected(s.items, s.selected_index)
    IN IF s.cls = "ActionParamBoolSelectorState"
       THEN [s EXCEPT !.selected_value = BoolValue(s.selected_index = 0)]
       ELSE [s EXCEPT !.selected_value = EnumValue(selected)]

\* get_value() / _get_string() of the editor
get_value(e) ==
    CASE e.cls \in IntEditors -> IntValue(e.value)
      [] e.cls \in MenuEditors -> e.selected_value
      [] e.cls = "ActionParamStringSelectorState" -> StrValue(e.chars)

\* return_to_previous() of the editor class: the three overrides write the
\* value into the parameter, ActionParamEnumSelectorState inherits
\* DeviceState.return_to_previous, which only pops
written_back(e, p) ==
    IF e.cls \in {"ActionParamIntSelectorState", "ActionParamStringSelectorState",
                  "ActionParamBoolSelectorState"}
    THEN [p EXCEPT !.value = get_value(e)]
    ELSE p

Step(op, e, e2) == [op |-> op, from |-> e.value, to |-> e2.value]

\* handle_event(ENCODER_CW) of the editor on top of the stack
editor_cw ==
    /\ eopen
    /\ editor.cls # "IntNumberSelector"
    /\ IF editor.cls \in IntEditors
       THEN /\ Len(trail) < MaxOps
            /\ editor' = next(editor)
            /\ trail' = Append(trail, Step("next", editor, next(editor)))
       ELSE /\ editor' = IF editor.cls \in MenuEditors THEN MenuState_up(editor)
                         ELSE StringCreatorState_next(editor)
            /\ UNCHANGED trail
    /\ UNCHANGED <<param, eopen, opens>>
    /\ UNCHANGED notEditor

\* handle_event(ENCODER_CCW) of the editor on top of the stack
editor_ccw ==
    /\ eopen
    /\ editor.cls # "IntNumberSelector"
    /\ IF editor.cls \in IntEditors
       THEN /\ Len(trail) < MaxOps
            /\ editor' = prev(editor)
            /\ trail' = Append(trail, Step("prev", editor, prev(editor)))
       ELSE /\ editor' = IF editor.cls \in MenuEditors THEN MenuState_down(editor)
                         ELSE StringCreatorState_prev(editor)
            /\ UNCHANGED trail
    /\ UNCHANGED <<param, eopen, opens>>
    /\ UNCHANGED notEditor

\* handle_event(ENCODER_SELECT) of the editor on top of the stack: the
\* string editor edits unless the tick is selected; the others store the
\* selected item, if any, and call return_to_previous()
editor_select ==
    /\ eopen
    /\ editor.cls # "IntNumberSelector"
    /\ IF editor.cls = "ActionParamStringSelectorState"
          /\ get_selected(editor.characters, editor.selected_index) # Tick
       THEN /\ IF get_selected(editor.characters, editor.selected_index) = LeftArrow
               THEN editor' = backspace(editor)
               ELSE /\ Len(editor.chars) < MaxChars
                    /\ editor' = add_char(editor)
            /\ UNCHANGED <<param, eopen>>
       ELSE LET e == IF editor.cls \in MenuEditors THEN select_item(editor)
                     ELSE editor
            IN /\ editor' = e
               /\ param' = written_back(e, param)
               /\ eopen' = FALSE
    /\ UNCHANGED <<trail, opens>>
    /\ UNCHANGED notEditor

\* ActionEditorState.handle_event(ENCODER_SELECT) on the parameter's item,
\* once the editor has returned: transition_to(editor class, param=param)
open_editor ==
    /\ ~eopen
    /\ opens < MaxOpens
    /\ opens' = opens + 1
    /\ editor' = editor_for(param)
    /\ eopen' = TRUE
    /\ trail' = <<>>
    /\ UNCHANGED param
    /\ UNCHANGED notEditor

\* IntNumberSelector.next() / prev() called on the stand-alone selector
selector_next ==
    /\ eopen
    /\ editor.cls = "IntNumberSelector"
    /\ Len(trail) < MaxOps
    /\ editor' = next(editor)
    /\ trail' = Append(trail, Step("next", editor, next(editor)))
    /\ UNCHANGED <<param, eopen, opens>>
    /\ UNCHANGED notEditor

selector_prev ==
    /\ eopen
    /\ editor.cls = "IntNumberSelector"
    /\ Len(trail) < MaxOps
    /\ editor' = prev(editor)
    /\ trail' = Append(trail, Step("prev", editor, prev(editor)))
    /\ UNCHANGED <<param, eopen, opens>>
    /\ UNCHANGED notEditor

\* no parameter is bound to the stand-alone selector
NoParam == [param_type |-> "none"]

InitEditor ==
    /\ \/ /\ \/ param \in IntParams
             \/ param \in StrParams
             \/ param \in BoolParams
             \/ param \in EnumParams
          /\ editor = editor_for(param)
       \/ /\ param = NoParam
          /\ \E lo \in 0..MaxValue, hi \in 0..MaxValue :
               lo <= hi /\ editor = IntNumberSelector(lo, hi)
    /\ eopen = TRUE
    /\ trail = <<>>
    /\ opens = 1
    /\ StorageIdle
    /\ GestureIdle
    /\ ActionIdle
    /\ NavIdle
    /\ DeviceIdle
    /\ StartIdle
    /\ ListIdle

NextEditor ==
    \/ editor_cw
    \/ editor_ccw
    \/ editor_select
    \/ open_editor
    \/ selector_next
    \/ selector_prev

SpecEditor == InitEditor /\ [][NextEditor]_vars

(***************************************************************************)
(*                            NAVIGATION                                   *)
(***************************************************************************)

\* Bounds of the navigation model: the number of preset files on disk at
\* startup, the number of items created through "Add Item", and how far the
\* cursor of a string editor is moved to the right.
MaxPresets == 5
MaxAdds == 1
MaxCursor == 2
\* the largest argument of a direct call of pop_state
MaxDeep == 3

\* enum Control, in definition order
ControlIds ==
    <<"BUTTON_1", "BUTTON_2", "BUTTON_3", "BUTTON_4", "EXP_PEDAL_1", "EXP_PEDAL_2">>

\* A Python dict is the sequence of its [key, value] entries in insertion
\* order, without repeated keys.
dict_keys(dd) == [i \in DOMAIN dd |-> dd[i].key]
dict_has(dd, k) == \E i \in DOMAIN dd : dd[i].key = k
dict_get(dd, k) == dd[CHOOSE i \in DOMAIN dd : dd[i].key = k].value
\* dd[k] = v
dict_set(dd, k, v) ==
    IF dict_has(dd, k)
    THEN [i \in DOMAIN dd |-> IF dd[i].key = k THEN [key |-> k, value |-> v] ELSE dd[i]]
    ELSE Append(dd, [key |-> k, value |-> v])
RECURSIVE dict_of(_)
\* the dict built by assigning the entries one after the other
dict_of(entries) ==
    IF entries = <<>> THEN <<>>
    ELSE LET e == entries[Len(entries)]
         IN dict_set(dict_of(SubSeq(entries, 1, Len(entries) - 1)), e.key, e.value)

\* an entry of preset.controls: a control model, or no entry for the control
NoControl == [kind |-> "absent", actions |-> <<>>]
ControlModel(actions) == [kind |-> "model", actions |-> actions]

\* A reference to an action object of the preset: the control and event it
\* is stored under and, for an item of a composite, the positions that lead
\* to it.  NoneRef is a reference that holds None.
Ref(control_id, control_event, path) ==
    [control_id |-> control_id, control_event |-> control_event, path |-> path]
NoneRef == Ref("None", "None", <<>>)

RECURSIVE item_at(_, _)
item_at(a, path) ==
    IF path = <<>> THEN a ELSE item_at(a.actions[Head(path)], Tail(path))
RECURSIVE with_item(_, _, _)
\* the action a with the object under path replaced by b
with_item(a, path, b) ==
    IF path = <<>> THEN b
    ELSE [a EXCEPT !.actions[Head(path)] = with_item(@, Tail(path), b)]

\* the object a reference points to
deref(ctl, ref) ==
    item_at(dict_get(ctl[ref.control_id].actions, ref.control_event), ref.path)
\* the controls after the object behind ref became b
assigned(ctl, ref, b) ==
    [ctl EXCEPT ![ref.control_id].actions =
        dict_set(@, ref.control_event,
                 with_item(dict_get(@, ref.control_event), ref.path, b))]

\* TITLE of the action classes; str(None) for None
TITLE(cls) ==
    CASE cls = "InfoAction" -> "Show Info"
      [] cls = "CCAction" -> "Send CC"
      [] cls = "PCAction" -> "Send PC"
      [] cls = "CompositeAction" -> "Composite Action"
      [] cls = "Action" -> "Base Action"
      [] cls = "NoneType" -> "None"

\* ActionRegistry.get_keys(): the registered types in registration order
get_keys == <<"info", "cc", "pc", "composite">>

\* what an action is constructed from when no data is given
NoData == Rec("none", MissingStr, MissingInt, MissingInt, <<>>)

\* the default alphabet of StringCreatorState
DefaultCharacters ==
    <<"_", " ", "A", "B", "C", "D", "E", "F", "G", "H", "I", "J", "K",
      "L", "M", "N", "O", "P", "Q", "R", "S", "T", "U", "V", "W", "X",
      "Y", "Z", "_", " ", "a", "b", "c", "d", "e", "f", "g", "h", "i",
      "j", "k", "l", "m", "n", "o", "p", "q", "r", "s", "t", "u", "v",
      "w", "x", "y", "z", " ", "_", "0", "1", "2", "3", "4", "5", "6",
      "7", "8", "9", " ", "_">>

\* an entry of a `transitions` dict: the screen class to push with the
\* keyword arguments of its constructor, or None for "go back"
NoArgs == [args |-> "none"]
NoTransition == [class |-> "None", args |-> NoArgs]
Transition(class, args) == [class |-> class, args |-> args]
Entry(key, value) == [key |-> key, value |-> value]

\* MenuState.__init__(items)
MenuState(items) ==
    [items |-> IF items = <<>> THEN <<"Back">> ELSE items,
     selected_index |-> 0, scroll_offset |-> 0]

HomeState == [cls |-> "HomeState"]
DummyState == [cls |-> "DummyState"]

\* SettingsMenuState.__init__
SettingsMenuState ==
    LET setup(label, id) ==
            Entry(label, Transition("ControlSettingsMenuState", [control_id |-> id]))
        transitions == dict_of(<<
            setup("Setup Button 1", "BUTTON_1"),
            setup("Setup Button 2", "BUTTON_2"),
            setup("Setup Button 3", "BUTTON_3"),
            setup("Setup Button 4", "BUTTON_4"),
            setup("Setup Exp Pedal 1", "EXP_PEDAL_1"),
            setup("Setup Exp Pedal 2", "EXP_PEDAL_2"),
            Entry("Save Preset", Transition("SavePresetState", NoArgs)),
            Entry("Clone Preset", Transition("DummyState", NoArgs)),
            Entry("Delete Preset", Transition("DummyState", NoArgs)),
            Entry("Back to Live Mode", NoTransition)>>)
    IN [cls |-> "SettingsMenuState", transitions |-> transitions,
        items |-> dict_keys(transitions)] @@ MenuState(<<>>)

\* ControlSettingsMenuState.__init__; `transitions` is set by on_enter
ControlSettingsMenuState(control_id) ==
    [cls |-> "ControlSettingsMenuState", control_id |-> control_id,
     transitions |-> <<>>] @@ MenuState(<<>>)

\* ButtonSettingsMenuState.__init__
ButtonSettingsMenuState(control_id, control_event) ==
    [cls |-> "ButtonSettingsMenuState", control_id |-> control_id,
     control_event |-> control_event, transitions |-> <<>>] @@ MenuState(<<>>)

\* ActionSelectorState.__init__: one item per registered type, by title
ActionSelectorState(control_id, control_event) ==
    LET action_types ==
            dict_of([i \in DOMAIN get_keys |->
                        Entry(TITLE(action_cls(get_keys[i])), get_keys[i])])
    IN [cls |-> "ActionSelectorState", control_id |-> control_id,
        control_event |-> control_event, action_types |-> action_types,
        items |-> dict_keys(action_types)] @@ MenuState(<<>>)

\* BooleanWithCallbackState.__init__; the callback is ActionEditorState._delete
\* of the editor that pushed the screen
BooleanWithCallbackState(value, true_value, false_value) ==
    LET transitions == dict_of(<<Entry(true_value, TRUE), Entry(false_value, FALSE)>>)
    IN [cls |-> "BooleanWithCallbackState", selected_value |-> value,
        transitions |-> transitions, items |-> dict_keys(transitions)]
       @@ MenuState(<<>>)

\* ListItemCreatorState.__init__; item_add_func is _add_item of the list
\* editor of `param`
ListItemCreatorState(items, a_param) ==
    [cls |-> "ListItemCreatorState", item_add_func |-> a_param] @@ MenuState(items)

\* ActionParamListEditorState.__init__; param is the "actions" parameter of
\* the composite action behind the reference
ActionParamListEditorState(a_param) ==
    [cls |-> "ActionParamListEditorState", param |-> a_param,
     creator_items |-> get_keys, transitions |-> <<>>] @@ MenuState(<<>>)

\* ActionEditorState.__init__
ActionEditorState(an_action, delete_callback) ==
    [cls |-> "ActionEditorState", action |-> an_action,
     delete_callback |-> delete_callback, transitions |-> <<>>] @@ MenuState(<<>>)

\* StringCreatorState.__init__ through SavePresetState.__init__.  The typed
\* string is left out here and in NavStringSelector: no push or pop depends
\* on it but the save of a blank name, which the "Select" event draws.
SavePresetState ==
    [cls |-> "SavePresetState",
     characters |-> <<Tick, LeftArrow>> \o DefaultCharacters,
     selected_index |-> 0, scroll_offset |-> 0]

\* ActionParamStringSelectorState.__init__ for the parameter of an action of
\* the preset, which has no "characters" option
NavStringSelector(a_param) ==
    [cls |-> "ActionParamStringSelectorState",
     characters |-> <<Tick, LeftArrow>> \o DefaultCharacters,
     selected_index |-> 0, scroll_offset |-> 0, param |-> a_param]

\* ActionParamIntSelectorState.__init__ for the parameter of an action of
\* the preset; the value shown is left out, the editor section models it
NavIntSelector(a_param) ==
    [cls |-> "ActionParamIntSelectorState", param |-> a_param]

\* ListItemReplaceState.__init__
ListItemReplaceState(items, current_index, return_to_previous_depth) ==
    [cls |-> "ListItemReplaceState",
     items |-> IF items = <<>> THEN <<"Back">> ELSE items,
     selected_index |-> current_index, scroll_offset |-> 0,
     return_to_previous_depth |-> return_to_previous_depth]

RECURSIVE sorted(_)
\* sorted(...) of a set of numbers
sorted(S) ==
    IF S = {} THEN <<>>
    ELSE LET m == CHOOSE x \in S : \A y \in S : x <= y
         IN <<m>> \o sorted(S \ {m})

\* StorageManager.get_preset_list(): one entry per file of presets/
get_preset_list(dir) ==
    LET numbers == sorted(dir)
    IN [i \in DOMAIN numbers |-> [number |-> numbers[i], name |-> "Preset"]]

\* ---- StateContext ----
\* The operators below work on the record w of the navigation state:
\* w.stack is StateContext._state_stack, w.controls is preset.controls,
\* w.raised the exception that left the handler and w.log the calls made.

\* the bottom of the stack taken for the active screen
current_state_bottom(stack) == stack[1]
\* StateContext.current_state: the last element of the stack
current_state(stack) == stack[Len(stack)]
Top(w) == current_state(w.stack)
SetTop(w, s) == [w EXCEPT !.stack[Len(w.stack)] = s]
Logged(w, e) == [w EXCEPT !.log = Append(@, e)]
classes(stack) == [i \in DOMAIN stack |-> stack[i].cls]

\* MenuState.on_enter and the on_enter of the other screens: clear_ui() and
\* the drawing of the screen
render(w) == Logged(w, [op |-> "render", cls |-> Top(w).cls])
\* _refresh_display() of the screen on top after a move of its cursor: the
\* handlers return before it when the cursor is at the end of the list
refresh(w, s) ==
    IF s = Top(w) THEN w
    ELSE Logged(SetTop(w, s), [op |-> "refresh", cls |-> s.cls])
\* a single context.ui.write_ui(...) of a handler
write_ui(w) == Logged(w, [op |-> "write_ui", cls |-> Top(w).cls])
\* a single context.ui.clear_ui() of a handler
clear_ui(w) == Logged(w, [op |-> "clear_ui", cls |-> Top(w).cls])

\* the entries every parameter of an action contributes to the transitions
\* of ButtonSettingsMenuState / ActionEditorState
param_transitions(a, ref) ==
    CASE a.type = "InfoAction" ->
           <<Entry("Info: " \o a.info,
                   Transition("ActionParamStringSelectorState", [param |-> ref]))>>
      [] a.type = "CCAction" ->
           <<Entry("Cc: " \o ToString(a.cc),
                   Transition("ActionParamIntSelectorState", [param |-> ref]))>>
      [] a.type = "PCAction" ->
           <<Entry("Pc: " \o ToString(a.pc),
                   Transition("ActionParamIntSelectorState", [param |-> ref]))>>
      [] a.type = "CompositeAction" ->
           <<Entry("Actions: []",
                   Transition("ActionParamListEditorState", [param |-> ref]))>>
      [] a.type = "Action" -> <<>>

\* self.transitions = ...; self.items = list(self.transitions.keys())
with_transitions(s, entries) ==
    [s EXCEPT !.transitions = dict_of(entries), !.items = dict_keys(dict_of(entries))]

\* one iteration of the loop of pop_state
pop_step_bottom(stack) == IF Len(stack) > 1 THEN Tail(stack) ELSE stack

pop_step(stack) ==
    IF Len(stack) > 1 THEN SubSeq(stack, 1, Len(stack) - 1) ELSE stack

pop_loop_once(stack, deep) == pop_step(stack)

RECURSIVE pop_loop(_, _)
\* for _ in range(deep): if len(self._state_stack) > 1: self._state_stack.pop()
pop_loop(stack, deep) ==
    IF deep <= 0 THEN stack ELSE pop_loop(pop_step(stack), deep - 1)

RECURSIVE on_enter(_)
RECURSIVE pop_state(_, _)

\* StateContext.pop_state(deep)
pop_state(w, deep) ==
    LET after == pop_loop(w.stack, deep)
    IN on_enter(Logged([w EXCEPT !.stack = after],
                       [op |-> "pop", deep |-> deep,
                        before |-> classes(w.stack), after |-> classes(after)]))

\* current_state.on_enter(), by the class of the screen on top
on_enter(w0) ==
    LET s == Top(w0)
        w == Logged(w0, [op |-> "on_enter", cls |-> s.cls, depth |-> Len(w0.stack)])
    IN CASE s.cls = "ActionEditorState" ->
              IF s.action = NoneRef THEN pop_state(w, 1)
              ELSE render(SetTop(w, with_transitions(s,
                      param_transitions(deref(w.controls, s.action), s.action)
                      \o <<Entry("Delete",
                                 Transition("BooleanWithCallbackState",
                                            [value |-> FALSE,
                                             true_value |-> "Confirm Delete",
                                             false_value |-> "Cancel"])),
                           Entry("Back to Settings", NoTransition)>>)))
         [] s.cls = "ButtonSettingsMenuState" ->
              IF s.control_id = "None" THEN pop_state(w, 1)
              ELSE IF w.controls[s.control_id].kind = "absent" THEN pop_state(w, 1)
              ELSE IF ~dict_has(w.controls[s.control_id].actions, s.control_event)
                   THEN pop_state(w, 1)
              ELSE LET ref == Ref(s.control_id, s.control_event, <<>>)
                       a == deref(w.controls, ref)
                   IN render(SetTop(w, with_transitions(s,
                         <<Entry("Type: " \o TITLE(a.type),
                                 Transition("ActionSelectorState",
                                            [control_id |-> s.control_id,
                                             control_event |-> s.control_event]))>>
                         \o param_transitions(a, ref)
                         \o <<Entry("Back to Settings", NoTransition)>>)))
         [] s.cls = "ControlSettingsMenuState" ->
              IF w.controls[s.control_id].kind = "absent"
              THEN Logged([w EXCEPT !.raised = "KeyError"],
                          [op |-> "raise", cls |-> s.cls])
              ELSE LET events == dict_keys(w.controls[s.control_id].actions)
                   IN render(SetTop(w, with_transitions(s,
                         [i \in DOMAIN events |->
                            Entry("Setup " \o events[i],
                                  Transition("ButtonSettingsMenuState",
                                             [control_id |-> s.control_id,
                                              control_event |-> events[i]]))]
                         \o <<Entry("Back", NoTransition)>>)))
         [] s.cls = "ActionParamListEditorState" ->
              LET value == deref(w.controls, s.param).actions
              IN render(SetTop(w, with_transitions(s,
                    [i \in DOMAIN value |->
                       Entry(ToString(i) \o ":" \o TITLE(value[i].type),
                             Transition("ActionEditorState",
                                [action |-> IF value[i].type = "NoneType" THEN NoneRef
                                            ELSE Ref(s.param.control_id,
                                                     s.param.control_event,
                                                     Append(s.param.path, i)),
                                 delete_callback |->
                                     Ref(s.param.control_id, s.param.control_event,
                                         Append(s.param.path, i))]))]
                    \o <<Entry("Add Item",
                               Transition("ListItemCreatorState",
                                          [items |-> s.creator_items,
                                           item_add_func |-> s.param])),
                         Entry("Back", NoTransition)>>)))
         [] OTHER -> render(w)

\* StateContext.push_state(new_state)
push_state(w, new_state) ==
    LET after == Append(w.stack, new_state)
    IN on_enter(Logged([w EXCEPT !.stack = after],
                       [op |-> "push", pushed |-> new_state.cls,
                        before |-> classes(w.stack), after |-> classes(after)]))

\* new_state_class(self.context, **kwargs)
new_state_class(class, args, w) ==
    CASE class = "SettingsMenuState" -> SettingsMenuState
      [] class = "ControlSettingsMenuState" -> ControlSettingsMenuState(args.control_id)
      [] class = "ButtonSettingsMenuState" ->
           ButtonSettingsMenuState(args.control_id, args.control_event)
      [] class = "ActionSelectorState" ->
           ActionSelectorState(args.control_id, args.control_event)
      [] class = "ActionParamStringSelectorState" -> NavStringSelector(args.param)
      [] class = "ActionParamIntSelectorState" -> NavIntSelector(args.param)
      [] class = "ActionParamListEditorState" -> ActionParamListEditorState(args.param)
      [] class = "ActionEditorState" ->
           ActionEditorState(args.action, args.delete_callback)
      [] class = "BooleanWithCallbackState" ->
           BooleanWithCallbackState(args.value, args.true_value, args.false_value)
      [] class = "ListItemCreatorState" ->
           ListItemCreatorState(args.items, args.item_add_func)
      [] class = "ListItemReplaceState" ->
           ListItemReplaceState(args.items, args.current_index,
                                args.return_to_previous_depth)
      [] class = "SavePresetState" -> SavePresetState
      [] class = "DummyState" -> DummyState

\* DeviceState.transition_to
transition_to(w, class, args) == push_state(w, new_state_class(class, args, w))

\* DeviceState.return_to_previous
return_to_previous(w, deep) == pop_state(w, deep)

\* ListItemReplaceState._down
ListItemReplaceState_down(s) ==
    IF s.selected_index >= Len(s.items) - 1 THEN s
    ELSE LET i == s.selected_index + 1
         IN [s EXCEPT !.selected_index = i,
                      !.scroll_offset = IF i >= @ + MAX_LINES THEN @ + 1 ELSE @]

\* ListItemReplaceState._up
ListItemReplaceState_up(s) ==
    IF s.selected_index <= 0 THEN s
    ELSE LET i == s.selected_index - 1
         IN [s EXCEPT !.selected_index = i,
                      !.scroll_offset = IF i < @ THEN @ - 1 ELSE @]

\* MenuState.handle_event
MenuState_handle_event(w, event) ==
    CASE event = "ENCODER_CW" -> refresh(w, MenuState_up(Top(w)))
      [] event = "ENCODER_CCW" -> refresh(w, MenuState_down(Top(w)))
      [] event = "ENCODER_SELECT" -> return_to_previous(w, 1)
      [] OTHER -> w

\* the "Select" branch of the menus that keep a `transitions` dict
follow_transition(w) ==
    LET s == Top(w)
        selected == get_selected(s.items, s.selected_index)
        new == dict_get(s.transitions, selected)
    IN IF new.class # "None" THEN transition_to(w, new.class, new.args)
       ELSE return_to_previous(w, 1)

\* ActionEditorState._delete(True), called by the confirmation screen on top
\* of the editor: delete_callback() removes the item from the list that
\* holds it, then self.action = None
\* StorageManager.save_preset(number, preset): a file of that number exists
\* afterwards; the call is logged
StorageManager_save_preset(w, number) ==
    Logged([w EXCEPT !.preset_dir = @ \cup {number}],
           [op |-> "save_preset", number |-> number])

\* StorageManager.save_current_preset_index(preset_number): the call is logged
save_current_preset_index(w, preset_number) ==
    Logged(w, [op |-> "save_current_preset_index", number |-> preset_number])

\* DataContext.save_current_preset(), which no handler calls
save_current_preset(w) == StorageManager_save_preset(w, w.current_preset_index)

ActionEditorState_delete_saving(w) ==
    LET below == Len(w.stack) - 1
        item == w.stack[below].delete_callback
        list == Ref(item.control_id, item.control_event,
                    SubSeq(item.path, 1, Len(item.path) - 1))
        position == item.path[Len(item.path)]
        owner == deref(w.controls, list)
        remaining == [i \in 1..(Len(owner.actions) - 1) |->
                        IF i < position THEN owner.actions[i] ELSE owner.actions[i + 1]]
    IN save_current_preset(
         [w EXCEPT !.controls = assigned(w.controls, list,
                                         [owner EXCEPT !.actions = remaining]),
                   !.stack[below].action = NoneRef])

\* a selector that builds a new action whatever the binding holds
ActionSelectorState_select_anew(w) ==
    LET s == w.stack[Len(w.stack)]
        selected == get_selected(s.items, s.selected_index)
        new_action_type == dict_get(s.action_types, selected)
        ref == Ref(s.control_id, s.control_event, <<>>)
    IN return_to_previous(
         [w EXCEPT !.controls =
             assigned(w.controls, ref,
                      construct(action_cls(new_action_type), NoData))], 1)

\* ActionSelectorState.handle_event, ENCODER_SELECT
ActionSelectorState_select(w) ==
    LET s == w.stack[Len(w.stack)]
        selected == get_selected(s.items, s.selected_index)
        new_action_type == dict_get(s.action_types, selected)
        ref == Ref(s.control_id, s.control_event, <<>>)
        existing_action == deref(w.controls, ref)
    IN return_to_previous(
         IF existing_action.type # action_cls(new_action_type)
         THEN [w EXCEPT !.controls =
                 assigned(w.controls, ref,
                          construct(action_cls(new_action_type), NoData))]
         ELSE w, 1)

\* a delete that drops the first child of the list
ActionEditorState_delete_first(w) ==
    LET below == Len(w.stack) - 1
        item == w.stack[below].delete_callback
        list == Ref(item.control_id, item.control_event,
                    SubSeq(item.path, 1, Len(item.path) - 1))
        owner == deref(w.controls, list)
    IN [w EXCEPT !.controls = assigned(w.controls, list,
                                       [owner EXCEPT !.actions = Tail(@)]),
                 !.stack[below].action = NoneRef]

ActionEditorState_delete(w) ==
    LET below == Len(w.stack) - 1
        item == w.stack[below].delete_callback
        list == Ref(item.control_id, item.control_event,
                    SubSeq(item.path, 1, Len(item.path) - 1))
        position == item.path[Len(item.path)]
        owner == deref(w.controls, list)
        remaining == [i \in 1..(Len(owner.actions) - 1) |->
                        IF i < position THEN owner.actions[i] ELSE owner.actions[i + 1]]
    IN [w EXCEPT !.controls = assigned(w.controls, list,
                                       [owner EXCEPT !.actions = remaining]),
                 !.stack[below].action = NoneRef]

\* ActionParamListEditorState._add_item(item_type)
add_item_first(w, a_param, item_type) ==
    LET new_item == create_action_by_type(item_type, NoData)
        owner == deref(w.controls, a_param)
    IN IF new_item.type # "NoneType"
       THEN [w EXCEPT !.controls = assigned(w.controls, a_param,
                                     [owner EXCEPT !.actions = <<new_item>> \o @]),
                      !.adds = @ + 1]
       ELSE w

add_item(w, a_param, item_type) ==
    LET new_item == create_action_by_type(item_type, NoData)
        owner == deref(w.controls, a_param)
    IN IF new_item.type # "NoneType"
       THEN [w EXCEPT !.controls = assigned(w.controls, a_param,
                                     [owner EXCEPT !.actions = Append(@, new_item)]),
                      !.adds = @ + 1]
       ELSE w

\* preset_name = self._get_string().strip(); named: it is not empty
get_string_strip(w, named) == Logged(w, [op |-> "get_string", named |-> named])

\* a save that leaves the marker file as it is
save_preset_without_marker(w, index, named) ==
    IF named
    THEN write_ui(clear_ui(
           StorageManager_save_preset(
             [get_string_strip(w, named) EXCEPT !.current_preset_index = index],
             index)))
    ELSE get_string_strip(w, named)

\* SavePresetState.save_preset(index)
save_preset(w, index, named) ==
    IF named
    THEN write_ui(clear_ui(
           save_current_preset_index(
             StorageManager_save_preset(
               [get_string_strip(w, named) EXCEPT !.current_preset_index = index],
               index), index)))
    ELSE get_string_strip(w, named)

TransitionMenus ==
    {"SettingsMenuState", "ControlSettingsMenuState", "ButtonSettingsMenuState",
     "ActionEditorState", "ActionParamListEditorState"}

\* current_state.handle_event(event)
handle_event(w, event, named) ==
    LET s == Top(w)
        select == event = "ENCODER_SELECT"
    IN CASE s.cls = "HomeState" ->
              IF select THEN transition_to(w, "SettingsMenuState", NoArgs)
              ELSE IF event = "INFO_MESSAGE" THEN write_ui(w)
              ELSE w
         [] s.cls \in TransitionMenus ->
              IF select THEN follow_transition(w) ELSE MenuState_handle_event(w, event)
         [] s.cls = "ActionSelectorState" ->
              IF select THEN ActionSelectorState_select(w)
              ELSE MenuState_handle_event(w, event)
         [] s.cls = "BooleanWithCallbackState" ->
              IF select
              THEN LET selected == get_selected(s.items, s.selected_index)
                       value == dict_get(s.transitions, selected)
                       w1 == SetTop(w, [s EXCEPT !.selected_value = value])
                   IN return_to_previous(
                        IF value THEN ActionEditorState_delete(w1) ELSE w1, 1)
              ELSE MenuState_handle_event(w, event)
         [] s.cls = "ListItemCreatorState" ->
              IF select
              THEN return_to_previous(
                     add_item(w, s.item_add_func,
                              get_selected(s.items, s.selected_index)), 1)
              ELSE MenuState_handle_event(w, event)
         [] s.cls = "ListItemReplaceState" ->
              CASE event = "ENCODER_CW" -> refresh(w, ListItemReplaceState_up(s))
                [] event = "ENCODER_CCW" -> refresh(w, ListItemReplaceState_down(s))
                [] select ->
                     return_to_previous(save_preset(w, s.selected_index, named),
                                        s.return_to_previous_depth)
                [] OTHER -> w
         [] s.cls \in {"SavePresetState", "ActionParamStringSelectorState"} ->
              CASE event = "ENCODER_CW" -> refresh(w, StringCreatorState_next(s))
                [] event = "ENCODER_CCW" -> refresh(w, StringCreatorState_prev(s))
                [] select /\ get_selected(s.characters, s.selected_index) = Tick ->
                     IF s.cls = "SavePresetState"
                     THEN transition_to(w, "ListItemReplaceState",
                            [items |-> [i \in DOMAIN get_preset_list(w.preset_dir) |->
                                          get_preset_list(w.preset_dir)[i].name],
                             current_index |-> w.current_preset_index,
                             return_to_previous_depth |-> 2])
                     ELSE return_to_previous(w, 1)
                \* _add_char() and _backspace() of a string that is not empty
                \* end with _refresh_display()
                [] select /\ get_selected(s.characters, s.selected_index) # Tick ->
                     write_ui(w)
                [] OTHER -> w
         [] s.cls = "ActionParamIntSelectorState" ->
              \* _next() and _prev() end with _refresh_display()
              CASE select -> return_to_previous(w, 1)
                [] event \in {"ENCODER_CW", "ENCODER_CCW"} -> write_ui(w)
                [] OTHER -> w
         [] s.cls = "DummyState" ->
              IF select THEN return_to_previous(w, 1) ELSE w

\* the navigation state as one record
World ==
    [stack |-> state_stack, controls |-> controls, preset_dir |-> preset_dir,
     current_preset_index |-> current_preset_index, adds |-> adds,
     raised |-> raised, log |-> navlog]

\* the navigation state after a call that ended in w
becomes(w) ==
    /\ state_stack' = w.stack
    /\ controls' = w.controls
    /\ preset_dir' = w.preset_dir
    /\ current_preset_index' = w.current_preset_index
    /\ adds' = w.adds
    /\ raised' = w.raised
    /\ navlog' = w.log

\* self.context.state.current_state.handle_event(event) of _main_loop: the
\* handler of the current state runs to its end; the log of the pass starts
\* with the event and the class of the screen that received it
dispatch(event, named) ==
    /\ ~(event = "ENCODER_SELECT" /\ Top(World).cls = "ListItemCreatorState"
         /\ adds >= MaxAdds)
    /\ ~(event = "ENCODER_CW"
         /\ Top(World).cls \in {"SavePresetState", "ActionParamStringSelectorState"}
         /\ Top(World).selected_index >= MaxCursor)
    /\ becomes(handle_event(
                 [World EXCEPT !.log = <<[op |-> "handle_event", event |-> event,
                                          cls |-> current_state(state_stack).cls]>>],
                 event, named))
    /\ UNCHANGED notNav

\* One pass of MidiNodeDevice._main_loop for each type of event the queue
\* can hold.  An exception leaves the loop, so no event is handled after it.
encoder_cw ==
    /\ raised = "none"
    /\ dispatch("ENCODER_CW", TRUE)

encoder_ccw ==
    /\ raised = "none"
    /\ dispatch("ENCODER_CCW", TRUE)

encoder_select ==
    /\ raised = "none"
    /\ \E named \in BOOLEAN : dispatch("ENCODER_SELECT", named)

info_message ==
    /\ raised = "none"
    /\ dispatch("INFO_MESSAGE", TRUE)

\* the action objects a loaded preset can hold for an event
NavActions ==
    {from_dict(r) :
        r \in {Rec("info", "x", MissingInt, MissingInt, <<>>),
               Rec("cc", MissingStr, MissingInt, MissingInt, <<>>),
               Rec("composite", MissingStr, MissingInt, MissingInt,
                   <<Rec("info", "x", MissingInt, MissingInt, <<>>),
                     Rec("bogus", MissingStr, MissingInt, MissingInt, <<>>)>>),
               Rec("bogus", MissingStr, MissingInt, MissingInt, <<>>)}}

\* a preset file with an action for the PRESS and one for the RELEASE of
\* button 1
TwoBindings ==
    <<Entry("PRESS", from_dict(Rec("cc", MissingStr, MissingInt, MissingInt, <<>>))),
      Entry("RELEASE", from_dict(Rec("info", "x", MissingInt, MissingInt, <<>>)))>>

\* preset.controls of a preset file that holds the given actions for
\* button 1, no entry for button 2 and no action for the other controls
LoadedControls(actions) ==
    [id \in Range(ControlIds) |->
        CASE id = "BUTTON_1" -> ControlModel(actions)
          [] id = "BUTTON_2" -> NoControl
          [] OTHER -> ControlModel(<<>>)]

\* MidiNodeDevice.__init__: DataContext loads the preset, then
\* push_state(HomeState(...)).  Either the only preset on disk holds an
\* action for the PRESS of button 1, or one for its PRESS and one for its
\* RELEASE, or there are MaxPresets presets and the loaded one holds no
\* action.
InitNav ==
    /\ \/ /\ \E a \in NavActions : controls = LoadedControls(<<Entry("PRESS", a)>>)
          /\ preset_dir = {0}
       \/ /\ controls = LoadedControls(TwoBindings)
          /\ preset_dir = {0}
       \/ /\ controls = LoadedControls(<<>>)
          /\ preset_dir = 0..(MaxPresets - 1)
    /\ current_preset_index = 0
    /\ adds = 0
    /\ raised = "none"
    /\ LET w == push_state([stack |-> <<>>, controls |-> controls,
                            preset_dir |-> preset_dir, current_preset_index |-> 0,
                            adds |-> 0, raised |-> "none", log |-> <<>>],
                           HomeState)
       IN state_stack = w.stack /\ navlog = w.log
    /\ StorageIdle
    /\ GestureIdle
    /\ ActionIdle
    /\ EditorIdle
    /\ DeviceIdle
    /\ StartIdle
    /\ ListIdle

NextNav ==
    \/ encoder_cw
    \/ encoder_ccw
    \/ encoder_select
    \/ info_message

SpecNav == InitNav /\ [][NextNav]_vars

\* StateContext.pop_state(deep) called with any depth on the stack as the
\* events have left it
call_pop_state(deep) ==
    /\ raised = "none"
    /\ becomes(pop_state([World EXCEPT !.log = <<>>], deep))
    /\ UNCHANGED notNav

NextStack ==
    \/ NextNav
    \/ \E deep \in 0..MaxDeep : call_pop_state(deep)

\* the screens driven by events, and StateContext called directly
SpecStack == InitNav /\ [][NextStack]_vars

(***************************************************************************)
(*                          THE THREE WORKERS                              *)
(***************************************************************************)

\* Bound of the device model: the number of inputs (encoder hits and
\* semantic button events) that arrive in a run.
MaxInputs == 2

\* the ButtonEvent members KeyboardInputManager calls _fire with
ButtonEvents == {"PRESS", "RELEASE", "TAP", "DOUBLE_TAP", "TRIPLE_TAP", "LONG_PRESS"}

\* key_map of InputManager.__init__, for the button that is modelled
key_map == [key \in {"1"} |-> "BUTTON_1"]
DeviceKeys == {"enter"} \cup DOMAIN key_map

\* the events InputManager.__init__ passes a handler for to add_button
registered(key) == IF key = "enter" THEN {"PRESS"} ELSE {"PRESS", "RELEASE"}

\* DataContext.__init__ without a current preset: the default preset
DefaultControls ==
    [id \in Range(ControlIds) |->
        IF id \in {"EXP_PEDAL_1", "EXP_PEDAL_2"}
        THEN ControlModel(<<Entry("CHANGE_VALUE", construct("InfoAction", Rec("info", "x", MissingInt, MissingInt, <<>>))),
                            Entry("ON_MIN", construct("InfoAction", Rec("info", "x", MissingInt, MissingInt, <<>>)))>>)
        ELSE ControlModel(<<Entry("PRESS", construct("InfoAction", Rec("info", "x", MissingInt, MissingInt, <<>>))),
                            Entry("RELEASE", construct("InfoAction", Rec("info", "x", MissingInt, MissingInt, <<>>)))>>)]

\* queue.Queue.put(item)
queue_put(q, items) == q \o items

queue_get_last(q) == [item |-> q[Len(q)], rest |-> SubSeq(q, 1, Len(q) - 1)]

\* queue.Queue.get(timeout=0.5) of a queue that holds an item
queue_get(q) == [item |-> Head(q), rest |-> Tail(q)]

queue_Empty_never(q) == FALSE

\* queue.Queue.get(timeout=0.5) raises queue.Empty: nothing arrived in time
queue_Empty(q) == q = <<>>

join_no_wait(thread) == TRUE

\* Thread.join() returns: the thread has ended
join(thread) == thread \in {"exited", "died"}

\* UIContext.clear_ui / write_ui: the commands a handler put on the UI
\* queue, from the calls it logged
RECURSIVE ui_commands(_)
ui_commands(calls) ==
    IF calls = <<>> THEN <<>>
    ELSE LET e == Head(calls)
             text == [type |-> "LCD_TEXT", str |-> e.cls]
             clear == [type |-> "LCD_CLEAR", str |-> ""]
         IN (CASE e.op = "render" -> <<clear, text>>
               [] e.op \in {"refresh", "write_ui"} -> <<text>>
               [] e.op = "clear_ui" -> <<clear>>
               [] OTHER -> <<>>)
            \o ui_commands(Tail(calls))

\* the branch of UIManager.run for a command: the call made on the display
display_call(command) ==
    IF command.type = "LCD_TEXT"
    THEN [op |-> "write_string", str |-> command.str, by |-> "command"]
    ELSE [op |-> "clear", str |-> "", by |-> "command"]

\* self.lcd.clear() of MidiNodeDevice.__init__ and self.display.clear() at
\* the end of UIManager.run
FirstClear == [op |-> "clear", str |-> "", by |-> "__init__"]
FinalClear == [op |-> "clear", str |-> "", by |-> "shutdown"]

\* DeviceContext.show_info for every message of an execute(): the events put
show_info(shown) == [i \in DOMAIN shown |-> "INFO_MESSAGE"]

\* what a handler of InputManager.__init__ does when called in the capture
\* worker, as a record: the navigation state it leaves, the events it put,
\* the exception that ended it
Handled(w, puts, error) == [w |-> w, puts |-> puts, raised |-> error]

handler_direct(w, key, event) ==
    IF key = "enter"
    THEN Handled(handle_event(w, "ENCODER_SELECT", TRUE), <<>>, "none")
    ELSE Handled(w, <<>>, "none")

\* the handler InputManager.__init__ registers for an event of a key: a put
\* of ENCODER_SELECT for 'enter',
\* self.controls[c].actions[event].execute() for a button
handler(w, key, event) ==
    IF key = "enter" THEN Handled(w, <<"ENCODER_SELECT">>, "none")
    ELSE LET c == key_map[key]
         IN IF w.controls[c].kind = "absent" \/ ~dict_has(w.controls[c].actions, event)
            THEN Handled(w, <<>>, "KeyError")
            ELSE LET r == execute(dict_get(w.controls[c].actions, event))
                 IN Handled(w, show_info(r.shown), r.raised)

\* KeyboardInputManager._fire(pin_data, event_type)
fire(w, key, event) ==
    IF event \in registered(key) THEN handler(w, key, event)
    ELSE Handled(w, <<>>, "none")

\* the process runs: the main thread has not left start(); the workers are
\* daemon threads and end with it
Alive == main_thread \notin {"stopped", "crashed"}

deviceFrame == <<storageVars, gestureVars, actionVars, editorVars, startVars, listVars>>

\* MidiNodeDevice.start(): self.input_thread.start()
start_input_thread ==
    /\ main_thread = "start"
    /\ main_thread' = "start_ui"
    /\ input_thread' = "check"
    /\ UNCHANGED <<shutdown_event, device_queue, ui_queue, lcd, ui_thread,
                   put_log, got_log, ui_log, inputs>>
    /\ UNCHANGED navVars
    /\ UNCHANGED deviceFrame

\* MidiNodeDevice.start(): self.ui_thread.start(), then _main_loop()
start_ui_thread ==
    /\ main_thread = "start_ui"
    /\ main_thread' = "loop"
    /\ ui_thread' = "check"
    /\ UNCHANGED <<shutdown_event, device_queue, ui_queue, lcd, input_thread,
                   put_log, got_log, ui_log, inputs>>
    /\ UNCHANGED navVars
    /\ UNCHANGED deviceFrame

\* _main_loop: event = self.event_queue.get(timeout=0.5);
\* current_state.handle_event(event).  The commands of the handler go to the
\* UI queue; an exception of the handler leaves the loop and start().
\* Only stop() sets the flag, so the loop never sees it set.
main_dispatch ==
    /\ main_thread = "loop"
    /\ ~shutdown_event
    /\ device_queue # <<>>
    /\ \E named \in BOOLEAN :
         LET got == queue_get(device_queue)
             w == handle_event(
                    [World EXCEPT !.log = <<[op |-> "handle_event", event |-> got.item,
                                             cls |-> current_state(state_stack).cls]>>],
                    got.item, named)
         IN /\ becomes(w)
            /\ device_queue' = got.rest
            /\ got_log' = Append(got_log, got.item)
            /\ ui_queue' = queue_put(ui_queue, ui_commands(w.log))
            /\ ui_log' = ui_log \o ui_commands(w.log)
            /\ main_thread' = IF w.raised # "none" THEN "crashed" ELSE "loop"
    /\ UNCHANGED <<shutdown_event, lcd, input_thread, ui_thread, put_log, inputs>>
    /\ UNCHANGED deviceFrame

\* _main_loop: except queue.Empty: continue
main_timeout ==
    /\ main_thread = "loop"
    /\ ~shutdown_event
    /\ queue_Empty(device_queue)
    /\ main_thread' = "loop"
    /\ UNCHANGED <<shutdown_event, device_queue, ui_queue, lcd, input_thread,
                   ui_thread, put_log, got_log, ui_log, inputs>>
    /\ UNCHANGED navVars
    /\ UNCHANGED deviceFrame

\* start(): except KeyboardInterrupt: self.stop()
keyboard_interrupt ==
    /\ main_thread = "loop"
    /\ main_thread' = "stop"
    /\ UNCHANGED <<shutdown_event, device_queue, ui_queue, lcd, input_thread,
                   ui_thread, put_log, got_log, ui_log, inputs>>
    /\ UNCHANGED navVars
    /\ UNCHANGED deviceFrame

\* stop(): self.shutdown_event.set()
stop_set ==
    /\ main_thread = "stop"
    /\ shutdown_event' = TRUE
    /\ main_thread' = "join_input"
    /\ UNCHANGED <<device_queue, ui_queue, lcd, input_thread, ui_thread, put_log,
                   got_log, ui_log, inputs>>
    /\ UNCHANGED navVars
    /\ UNCHANGED deviceFrame

\* stop(): self.input_thread.join()
join_input_thread ==
    /\ main_thread = "join_input"
    /\ join(input_thread)
    /\ main_thread' = "join_ui"
    /\ UNCHANGED <<shutdown_event, device_queue, ui_queue, lcd, input_thread,
                   ui_thread, put_log, got_log, ui_log, inputs>>
    /\ UNCHANGED navVars
    /\ UNCHANGED deviceFrame

\* stop(): self.ui_thread.join(), then stop() and start() return
join_ui_thread ==
    /\ main_thread = "join_ui"
    /\ join(ui_thread)
    /\ main_thread' = "stopped"
    /\ UNCHANGED <<shutdown_event, device_queue, ui_queue, lcd, input_thread,
                   ui_thread, put_log, got_log, ui_log, inputs>>
    /\ UNCHANGED navVars
    /\ UNCHANGED deviceFrame

\* KeyboardInputManager.start: while not shutdown_event()
capture_check ==
    /\ Alive
    /\ input_thread = "check"
    /\ input_thread' = IF shutdown_event THEN "exited" ELSE "work"
    /\ UNCHANGED <<shutdown_event, device_queue, ui_queue, lcd, main_thread,
                   ui_thread, put_log, got_log, ui_log, inputs>>
    /\ UNCHANGED navVars
    /\ UNCHANGED deviceFrame

\* one pass of the loop of KeyboardInputManager.start calls _fire with a
\* semantic event of a key; an exception of the handler ends the thread
capture_fire ==
    /\ Alive
    /\ input_thread = "work"
    /\ inputs < MaxInputs
    /\ \E key \in DeviceKeys, event \in ButtonEvents :
         LET r == fire(World, key, event)
         IN /\ becomes(r.w)
            /\ device_queue' = queue_put(device_queue, r.puts)
            /\ put_log' = put_log \o r.puts
            /\ input_thread' = IF r.raised # "none" THEN "died" ELSE "work"
    /\ inputs' = inputs + 1
    /\ UNCHANGED <<shutdown_event, ui_queue, lcd, main_thread, ui_thread, got_log,
                   ui_log>>
    /\ UNCHANGED deviceFrame

\* KeyboardInputManager.start: time.sleep(0.01) at the end of a pass
capture_sleep ==
    /\ Alive
    /\ input_thread = "work"
    /\ input_thread' = "check"
    /\ UNCHANGED <<shutdown_event, device_queue, ui_queue, lcd, main_thread,
                   ui_thread, put_log, got_log, ui_log, inputs>>
    /\ UNCHANGED navVars
    /\ UNCHANGED deviceFrame

\* encoder_callback(direction), called by _on_encoder_hit in the thread of
\* the keyboard hooks
encoder_hit ==
    /\ Alive
    /\ inputs < MaxInputs
    /\ \E direction \in {1, -1} :
         LET item == IF direction = 1 THEN "ENCODER_CW" ELSE "ENCODER_CCW"
         IN /\ device_queue' = queue_put(device_queue, <<item>>)
            /\ put_log' = Append(put_log, item)
    /\ inputs' = inputs + 1
    /\ UNCHANGED <<shutdown_event, ui_queue, lcd, main_thread, input_thread,
                   ui_thread, got_log, ui_log>>
    /\ UNCHANGED navVars
    /\ UNCHANGED deviceFrame

\* UIManager.run: while not self.shutdown.is_set()
render_check ==
    /\ Alive
    /\ ui_thread = "check"
    /\ ui_thread' = IF shutdown_event THEN "clear" ELSE "get"
    /\ UNCHANGED <<shutdown_event, device_queue, ui_queue, lcd, main_thread,
                   input_thread, put_log, got_log, ui_log, inputs>>
    /\ UNCHANGED navVars
    /\ UNCHANGED deviceFrame

\* UIManager.run: event = self.queue.get(timeout=0.5) and the call on the
\* display
render_command ==
    /\ Alive
    /\ ui_thread = "get"
    /\ ui_queue # <<>>
    /\ LET got == queue_get(ui_queue)
       IN /\ ui_queue' = got.rest
          /\ lcd' = Append(lcd, display_call(got.item))
    /\ ui_thread' = "check"
    /\ UNCHANGED <<shutdown_event, device_queue, main_thread, input_thread,
                   put_log, got_log, ui_log, inputs>>
    /\ UNCHANGED navVars
    /\ UNCHANGED deviceFrame

\* UIManager.run: except queue.Empty: continue
render_timeout ==
    /\ Alive
    /\ ui_thread = "get"
    /\ queue_Empty(ui_queue)
    /\ ui_thread' = "check"
    /\ UNCHANGED <<shutdown_event, device_queue, ui_queue, lcd, main_thread,
                   input_thread, put_log, got_log, ui_log, inputs>>
    /\ UNCHANGED navVars
    /\ UNCHANGED deviceFrame

\* UIManager.run: self.display.clear() after the loop
render_final_clear ==
    /\ Alive
    /\ ui_thread = "clear"
    /\ lcd' = Append(lcd, FinalClear)
    /\ ui_thread' = "exited"
    /\ UNCHANGED <<shutdown_event, device_queue, ui_queue, main_thread,
                   input_thread, put_log, got_log, ui_log, inputs>>
    /\ UNCHANGED navVars
    /\ UNCHANGED deviceFrame

\* a stored composite action with a child of a type that is not registered
StoredComposite ==
    from_dict(Rec("composite", MissingStr, MissingInt, MissingInt,
                  <<Rec("info", "x", MissingInt, MissingInt, <<>>),
                    Rec("bogus", MissingStr, MissingInt, MissingInt, <<>>)>>))

\* MidiNodeDevice.__init__: the preset is the default one, or a stored one
\* with a composite action for the PRESS of button 1
InitDevice ==
    /\ \/ controls = DefaultControls
       \/ controls = LoadedControls(<<Entry("PRESS", StoredComposite)>>)
    /\ preset_dir = {0}
    /\ current_preset_index = 0
    /\ adds = 0
    /\ raised = "none"
    /\ LET w == push_state([stack |-> <<>>, controls |-> controls,
                            preset_dir |-> preset_dir, current_preset_index |-> 0,
                            adds |-> 0, raised |-> "none", log |-> <<>>],
                           HomeState)
       IN /\ state_stack = w.stack
          /\ navlog = w.log
          /\ ui_queue = ui_commands(w.log)
          /\ ui_log = ui_commands(w.log)
    /\ shutdown_event = FALSE
    /\ device_queue = <<>>
    /\ lcd = <<FirstClear>>
    /\ main_thread = "start"
    /\ input_thread = "new"
    /\ ui_thread = "new"
    /\ put_log = <<>>
    /\ got_log = <<>>
    /\ inputs = 0
    /\ StorageIdle
    /\ GestureIdle
    /\ ActionIdle
    /\ EditorIdle
    /\ StartIdle
    /\ ListIdle

NextDevice ==
    \/ start_input_thread
    \/ start_ui_thread
    \/ main_dispatch
    \/ main_timeout
    \/ keyboard_interrupt
    \/ stop_set
    \/ join_input_thread
    \/ join_ui_thread
    \/ capture_check
    \/ capture_fire
    \/ capture_sleep
    \/ encoder_hit
    \/ render_check
    \/ render_command
    \/ render_timeout
    \/ render_final_clear

SpecDevice == InitDevice /\ [][NextDevice]_vars

\* The scheduler runs every thread that can run: stop() and the loops of
\* the capture thread and of the render thread make their next step.
\* Inputs and Ctrl+C come from outside and are not forced, and nothing is
\* assumed about the main loop before stop().
FairDevice ==
    /\ SpecDevice
    /\ WF_vars(stop_set \/ join_input_thread \/ join_ui_thread)
    /\ WF_vars(capture_check \/ capture_sleep)
    /\ WF_vars(render_check \/ render_command \/ render_timeout
               \/ render_final_clear)

(***************************************************************************)
(*            THE KEY HOOKS AND THE CAPTURE WORKER                         *)
(***************************************************************************)

\* the key add_button is called with for the encoder's push button
SelectKeys == {"enter"}

\* one pass of the inner loop of KeyboardInputManager.start in the capture
\* worker: popleft, _handle_mock_hardware_event(event), and the handler of
\* InputManager.__init__ that _fire calls
capture_poll ==
    /\ Alive
    /\ input_thread = "work"
    /\ event_queue # <<>>
    /\ LET event == Head(event_queue)
           key == event[1]
           edge == event[2]
           data == buttons[key]
           fired == fired_by_event(data, edge, now)
           puts == IF fired = <<>> THEN <<>>
                   ELSE fire(World, key, fired[1].ev).puts
       IN /\ event_queue' = Tail(event_queue)
          /\ buttons' = [buttons EXCEPT ![key] =
                            IF edge = "FALLING" THEN on_falling(data, now)
                            ELSE on_rising(data, now)]
          /\ log' = [log EXCEPT ![key] = @ \o fired]
          /\ device_queue' = queue_put(device_queue, puts)
          /\ put_log' = put_log \o puts
    /\ UNCHANGED <<key_states, now, pc, accepted, raw, edges>>
    /\ UNCHANGED <<shutdown_event, ui_queue, lcd, main_thread, input_thread,
                   ui_thread, got_log, ui_log, inputs>>
    /\ UNCHANGED navVars
    /\ UNCHANGED <<storageVars, actionVars, editorVars, startVars, listVars>>

\* InputManager.__init__: add_encoder('down', 'up', ...) and
\* add_button('enter', ...); the hooks are installed and the capture worker
\* is in its loop
InitInput ==
    /\ key_states = [key \in SelectKeys |-> FALSE]
    /\ buttons = [key \in SelectKeys |-> NewButton]
    /\ event_queue = <<>>
    /\ now = 1
    /\ pc = "run"
    /\ log = [key \in SelectKeys |-> <<>>]
    /\ accepted = [key \in SelectKeys |-> 0]
    /\ raw = <<>>
    /\ edges = 0
    /\ shutdown_event = FALSE
    /\ device_queue = <<>>
    /\ ui_queue = <<>>
    /\ lcd = <<>>
    /\ main_thread = "loop"
    /\ input_thread = "work"
    /\ ui_thread = "get"
    /\ put_log = <<>>
    /\ got_log = <<>>
    /\ ui_log = <<>>
    /\ inputs = 0
    /\ StorageIdle
    /\ ActionIdle
    /\ EditorIdle
    /\ NavIdle
    /\ StartIdle
    /\ ListIdle

NextInput ==
    \/ \E key \in SelectKeys, edge \in Edges : on_key_event(key, edge)
    \/ capture_poll
    \/ encoder_hit

SpecInput == InitInput /\ [][NextInput]_vars

(***************************************************************************)
(*                    STARTUP: the files under ./data                      *)
(***************************************************************************)

\* the slots that may hold a preset file, numbers that never hold a file,
\* and the numbers that may hold a bank file
StartSlots == {5, 12, 100}
OtherNumbers == {7}
StartBanks == {1}
\* the name stored in the record of each slot
StoredName == (5 :> "five") @@ (12 :> "twelve") @@ (100 :> "hundred")

\* a file NNN.json: absent, not JSON ("corrupt"), JSON that is not an
\* object ("array"), an object without a "name" key, or a named record
File(kind, name) == [kind |-> kind, name |-> name]
NoFile == File("absent", "")
PresetFiles(number) ==
    {NoFile, File("corrupt", ""), File("array", ""), File("noname", ""),
     File("named", StoredName[number])}
BankFiles == {NoFile, File("corrupt", ""), File("named", "B")}
\* current_preset.txt / current_bank.txt: absent, or str(number)
NoMarker == [exists |-> FALSE, number |-> 0]
Marker(number) == [exists |-> TRUE, number |-> number]

file_at(files, number) ==
    IF number \in DOMAIN files THEN files[number] ELSE NoFile

\* what a call gave: a value, or the exception that left it
NoneResult == [kind |-> "None"]
IntResult(number) == [kind |-> "int", number |-> number]
PresetResult(name) == [kind |-> "Preset", name |-> name]
BankResult(name) == [kind |-> "Bank", name |-> name]
ListResult(items) == [kind |-> "list", items |-> items]
Raises(error) == [kind |-> "raise", error |-> error]
Started(top) == [kind |-> "started", top |-> top]

RECURSIVE decimal(_)
\* the decimal digits of a number, as str() and format() write them
decimal(number) ==
    IF number < 10 THEN <<number>>
    ELSE decimal(number \div 10) \o <<number % 10>>

\* the stem without the zero padding
get_preset_path_unpadded(number) == decimal(number)

RECURSIVE zfill(_, _)
zfill(digits, width) ==
    IF Len(digits) < width THEN zfill(<<0>> \o digits, width) ELSE digits

\* StorageManager._get_preset_path: the stem of f"{number:03d}.json"
get_preset_path(number) == zfill(decimal(number), 3)

RECURSIVE int_of(_)
\* int(file.stem)
int_of(digits) ==
    IF digits = <<>> THEN 0
    ELSE 10 * int_of(SubSeq(digits, 1, Len(digits) - 1)) + digits[Len(digits)]

RECURSIVE str_less(_, _)
\* a < b for two strings of digits: the order sorted() puts the paths in
str_less(a, b) ==
    IF b = <<>> THEN FALSE
    ELSE IF a = <<>> THEN TRUE
    ELSE IF Head(a) # Head(b) THEN Head(a) < Head(b)
    ELSE str_less(Tail(a), Tail(b))

RECURSIVE sorted_paths(_)
\* sorted(self.preset_dir.glob("*.json"))
sorted_paths(S) ==
    IF S = {} THEN <<>>
    ELSE LET first == CHOOSE x \in S : \A y \in S \ {x} : str_less(x, y)
         IN <<first>> \o sorted_paths(S \ {first})

\* the files of presets/, by stem
glob(files) == {get_preset_path(n) : n \in {k \in DOMAIN files : files[k] # NoFile}}

\* the entry get_preset_list appends for one file
list_entry(file, stem) ==
    [number |-> int_of(stem),
     name |-> IF file.kind \in {"corrupt", "array"} THEN "Error"
              ELSE IF file.kind = "noname" THEN "Unnamed"
              ELSE file.name]

\* StorageManager.get_preset_list()
StorageManager_get_preset_list(files) ==
    LET paths == sorted_paths(glob(files))
        file_of(stem) == files[CHOOSE n \in DOMAIN files : get_preset_path(n) = stem]
    IN ListResult([i \in DOMAIN paths |-> list_entry(file_of(paths[i]), paths[i])])

\* StorageManager.get_bank_list(): no file of banks/ is read under a try
get_bank_list(files) ==
    IF \E n \in DOMAIN files : files[n].kind = "corrupt"
    THEN Raises("JSONDecodeError")
    ELSE ListResult(<<>>)

\* StorageManager.load_preset(number)
preset_loaded(files, number) ==
    LET file == file_at(files, number)
    IN CASE file.kind = "absent" -> NoneResult
         [] file.kind = "corrupt" -> Raises("JSONDecodeError")
         [] file.kind = "array" -> Raises("AttributeError")
         [] file.kind = "noname" -> PresetResult("[Unnamed]")
         [] file.kind = "named" -> PresetResult(file.name)

\* StorageManager.load_bank(number)
bank_loaded(files, number) ==
    LET file == file_at(files, number)
    IN CASE file.kind = "absent" -> NoneResult
         [] file.kind = "corrupt" -> Raises("JSONDecodeError")
         [] file.kind = "named" -> BankResult(file.name)

\* StorageManager.load_current_preset_index / load_current_bank_index
index_loaded(marker) ==
    IF ~marker.exists THEN NoneResult ELSE IntResult(marker.number)

\* DataContext.__init__ and MidiNodeDevice.__init__, up to
\* push_state(HomeState(...))
MidiNodeDevice_init(d) ==
    LET bank_list == get_bank_list(d.banks)
        current_bank_index == index_loaded(d.current_bank)
        preset_index == index_loaded(d.current_preset)
        bank == IF current_bank_index # NoneResult
                THEN bank_loaded(d.banks, current_bank_index.number)
                ELSE BankResult("Default Bank")
        preset == IF preset_index # NoneResult
                  THEN preset_loaded(d.presets, preset_index.number)
                  ELSE PresetResult("Default Preset")
    IN CASE bank_list.kind = "raise" -> bank_list
         [] bank_list.kind # "raise" /\ bank.kind = "raise" -> bank
         [] bank_list.kind # "raise" /\ bank.kind # "raise"
              /\ preset.kind = "raise" -> preset
         \* self.context.data.preset.controls, with preset None
         [] bank_list.kind # "raise" /\ bank.kind # "raise"
              /\ preset = NoneResult -> Raises("AttributeError")
         [] OTHER -> Started("HomeState")

load_preset(number) ==
    /\ returned' = [op |-> "load_preset", number |-> number,
                    value |-> preset_loaded(disk.presets, number)]
    /\ UNCHANGED disk
    /\ UNCHANGED notStart

load_bank(number) ==
    /\ returned' = [op |-> "load_bank", number |-> number,
                    value |-> bank_loaded(disk.banks, number)]
    /\ UNCHANGED disk
    /\ UNCHANGED notStart

load_current_preset_index ==
    /\ returned' = [op |-> "load_current_preset_index",
                    value |-> index_loaded(disk.current_preset)]
    /\ UNCHANGED disk
    /\ UNCHANGED notStart

load_current_bank_index ==
    /\ returned' = [op |-> "load_current_bank_index",
                    value |-> index_loaded(disk.current_bank)]
    /\ UNCHANGED disk
    /\ UNCHANGED notStart

list_presets ==
    /\ returned' = [op |-> "get_preset_list",
                    value |-> StorageManager_get_preset_list(disk.presets)]
    /\ UNCHANGED disk
    /\ UNCHANGED notStart

\* device = MidiNodeDevice()
device_init ==
    /\ returned' = [op |-> "MidiNodeDevice", value |-> MidiNodeDevice_init(disk)]
    /\ UNCHANGED disk
    /\ UNCHANGED notStart

InitStartup ==
    /\ disk \in {d \in [presets : [StartSlots -> UNION {PresetFiles(n) : n \in StartSlots}],
                        banks : [StartBanks -> BankFiles],
                        current_preset : {NoMarker} \cup {Marker(n) : n \in StartSlots},
                        current_bank : {NoMarker} \cup {Marker(n) : n \in StartBanks}] :
                   \A n \in StartSlots : d.presets[n] \in PresetFiles(n)}
    /\ returned = [op |-> "none"]
    /\ ListIdle
    /\ StorageIdle
    /\ GestureIdle
    /\ ActionIdle
    /\ EditorIdle
    /\ NavIdle
    /\ DeviceIdle

NextStartup ==
    \/ \E number \in StartSlots \cup OtherNumbers : load_preset(number)
    \/ \E number \in StartBanks \cup OtherNumbers : load_bank(number)
    \/ load_current_preset_index
    \/ load_current_bank_index
    \/ list_presets
    \/ device_init

SpecStartup == InitStartup /\ [][NextStartup]_vars

(***************************************************************************)
(*                           LIST WIDGETS                                  *)
(***************************************************************************)

\* how many items beyond a full window a list may hold
MaxExtra == 2

\* CharacterSelector.VISIBLE_WIDTH (src/char_selector.py)
CharacterSelector_VISIBLE_WIDTH == 40

\* the screens of src/main.py and the standalone widgets with a cursor and a
\* scroll offset.  ListOrderingState is not among them: its constructor
\* raises AttributeError (self.console), no object of the class exists.
ListClasses == {"MenuState", "ListItemReplaceState", "Menu", "MenuPlacer"}
CharClasses == {"StringCreatorState", "CharacterSelector"}
OrderingClasses == {"ListOrdering"}

\* the number of lines or columns the class draws
Window(cls) ==
    CASE cls = "StringCreatorState" -> VISIBLE_WIDTH
      [] cls = "CharacterSelector" -> CharacterSelector_VISIBLE_WIDTH
      [] OTHER -> MAX_LINES

\* the lengths of the lists: shorter than the window, and up to MaxExtra
\* items longer
Lengths(cls) == {1, 2} \cup (Window(cls)..(Window(cls) + MaxExtra))

\* the constructors; the items are numbered to tell them apart
NewList(cls, n, current_index) ==
    [cls |-> cls, items |-> [i \in 1..n |-> i],
     selected_index |-> current_index, scroll_offset |-> 0]
NewChars(cls, n) ==
    [cls |-> cls, characters |-> [i \in 1..n |-> i],
     selected_index |-> 0, scroll_offset |-> 0]
NewOrdering(cls, n) ==
    [cls |-> cls, items |-> [i \in 1..n |-> i],
     current_index |-> 0, scroll_offset |-> 0]

\* Menu.down (src/menu.py)
Menu_down(s) ==
    IF s.selected_index >= Len(s.items) - 1 THEN s
    ELSE LET i == s.selected_index + 1
         IN [s EXCEPT !.selected_index = i,
                      !.scroll_offset = IF i >= @ + MAX_LINES THEN @ + 1 ELSE @]

\* Menu.up
Menu_up(s) ==
    IF s.selected_index <= 0 THEN s
    ELSE LET i == s.selected_index - 1
         IN [s EXCEPT !.selected_index = i,
                      !.scroll_offset = IF i < @ THEN @ - 1 ELSE @]

\* MenuPlacer.down (src/move-list.py)
MenuPlacer_down(s) ==
    IF s.selected_index >= Len(s.items) - 1 THEN s
    ELSE LET i == s.selected_index + 1
         IN [s EXCEPT !.selected_index = i,
                      !.scroll_offset = IF i >= @ + MAX_LINES THEN @ + 1 ELSE @]

\* MenuPlacer.up
MenuPlacer_up(s) ==
    IF s.selected_index <= 0 THEN s
    ELSE LET i == s.selected_index - 1
         IN [s EXCEPT !.selected_index = i,
                      !.scroll_offset = IF i < @ THEN @ - 1 ELSE @]

\* CharacterSelector.next (src/char_selector.py)
CharacterSelector_next(s) ==
    IF s.selected_index >= Len(s.characters) - 1 THEN s
    ELSE LET i == s.selected_index + 1
         IN [s EXCEPT !.selected_index = i,
                      !.scroll_offset =
                          IF i >= @ + CharacterSelector_VISIBLE_WIDTH
                          THEN @ + 1 ELSE @]

\* CharacterSelector.prev
CharacterSelector_prev(s) ==
    IF s.selected_index <= 0 THEN s
    ELSE LET i == s.selected_index - 1
         IN [s EXCEPT !.selected_index = i,
                      !.scroll_offset = IF i < @ THEN @ - 1 ELSE @]

\* items[a], items[b] = items[b], items[a] (0-based a, b)
swapped(items, a, b) ==
    [i \in DOMAIN items |->
        IF i = a + 1 THEN items[b + 1]
        ELSE IF i = b + 1 THEN items[a + 1]
        ELSE items[i]]

\* ListOrdering.set_current(index) (src/list-ordering.py)
ListOrdering_set_current(s, index) ==
    [s EXCEPT !.current_index = index,
              !.scroll_offset =
                  IF index < @ THEN index
                  ELSE IF index >= @ + MAX_LINES THEN index - MAX_LINES + 1
                  ELSE @]

\* ListOrdering.down; ListOrderingState._down of src/main.py has the same body
ListOrdering_down(s) ==
    IF s.current_index >= Len(s.items) - 1 THEN s
    ELSE LET i == s.current_index + 1
         IN [s EXCEPT !.items = swapped(@, s.current_index, i),
                      !.current_index = i,
                      !.scroll_offset = IF i >= @ + MAX_LINES - 1 THEN @ + 1 ELSE @]

\* ListOrdering.up; ListOrderingState._up of src/main.py has the same body
ListOrdering_up(s) ==
    IF s.current_index <= 0 THEN s
    ELSE LET i == s.current_index - 1
         IN [s EXCEPT !.items = swapped(@, s.current_index, i),
                      !.current_index = i,
                      !.scroll_offset = IF i < @ THEN @ - 1 ELSE @]

\* down() / _down() / next() of the widget's class
step_down(s) ==
    CASE s.cls = "MenuState" -> MenuState_down(s)
      [] s.cls = "ListItemReplaceState" -> ListItemReplaceState_down(s)
      [] s.cls = "StringCreatorState" -> StringCreatorState_next(s)
      [] s.cls = "Menu" -> Menu_down(s)
      [] s.cls = "MenuPlacer" -> MenuPlacer_down(s)
      [] s.cls = "CharacterSelector" -> CharacterSelector_next(s)
      [] s.cls = "ListOrdering" -> ListOrdering_down(s)

\* up() / _up() / prev() of the widget's class
step_up(s) ==
    CASE s.cls = "MenuState" -> MenuState_up(s)
      [] s.cls = "ListItemReplaceState" -> ListItemReplaceState_up(s)
      [] s.cls = "StringCreatorState" -> StringCreatorState_prev(s)
      [] s.cls = "Menu" -> Menu_up(s)
      [] s.cls = "MenuPlacer" -> MenuPlacer_up(s)
      [] s.cls = "CharacterSelector" -> CharacterSelector_prev(s)
      [] s.cls = "ListOrdering" -> ListOrdering_up(s)

Stepped(dir, was) == [dir |-> dir, was |-> was]

widget_down ==
    /\ widget' = step_down(widget)
    /\ last_step' = Stepped("down", widget)
    /\ UNCHANGED notList

widget_up ==
    /\ widget' = step_up(widget)
    /\ last_step' = Stepped("up", widget)
    /\ UNCHANGED notList

InitList ==
    /\ \/ \E cls \in ListClasses : \E n \in Lengths(cls) :
            \E current_index \in IF cls = "ListItemReplaceState" THEN 0..(n - 1) ELSE {0} :
               widget = NewList(cls, n, current_index)
       \/ \E cls \in CharClasses : \E n \in Lengths(cls) : widget = NewChars(cls, n)
       \* ListOrdering(console, items), then set_current(index)
       \/ \E cls \in OrderingClasses : \E n \in Lengths(cls) :
            \E index \in 0..(n - 1) :
               widget = ListOrdering_set_current(NewOrdering(cls, n), index)
    /\ last_step = Stepped("none", widget)
    /\ StartIdle
    /\ StorageIdle
    /\ GestureIdle
    /\ ActionIdle
    /\ EditorIdle
    /\ NavIdle
    /\ DeviceIdle

NextList ==
    \/ widget_down
    \/ widget_up

SpecList == InitList /\ [][NextList]_vars

(***************************************************************************)
(*                     STORAGE: the claims                                 *)
(***************************************************************************)

IsMove == call.op = "reorder" /\ call.mode = "move"
IsClone == call.op = "reorder" /\ call.mode = "clone"
IsRemove == call.op = "remove"
SourceExisted == before.presets[call.source] # NoRecord
StorageUntouched == presets = before.presets /\ banks = before.banks

\* C1: bank integrity - after each move / remove, every slot number in every
\* bank's preset list has an existing preset record.
C1_BankIntegrity == References(banks, presets)

\* C2: bank sweep result - after a successful move s -> t every bank's list
\* is its previous list with each s replaced in place by t; after a
\* successful remove of s it is its previous list with every s taken out;
\* nothing else about a bank changes.
C2_BankSweepResult ==
    /\ (IsMove /\ result = "ok") =>
         \A id \in BankIds :
           LET old == before.banks[id]
               new == banks[id]
           IN /\ new.kind = old.kind /\ new.name = old.name
              /\ Len(new.presets) = Len(old.presets)
              /\ \A i \in DOMAIN old.presets :
                   new.presets[i] = IF old.presets[i] = call.source
                                    THEN call.target ELSE old.presets[i]
    /\ (IsRemove /\ SourceExisted /\ result = "ok") =>
         \A id \in BankIds :
           LET old == before.banks[id]
               new == banks[id]
           IN /\ new.kind = old.kind /\ new.name = old.name
              /\ new.presets = SelectSeq(old.presets, LAMBDA x : x # call.source)

\* witness of C2: the move 5 -> 12 has turned a bank [5, 7] into [12, 7]
C2_Witness ==
    /\ IsMove /\ call.source = 5 /\ call.target = 12 /\ result = "ok"
    /\ presets[12] = SavedRecord[5] /\ presets[5] = NoRecord
    /\ \E id \in BankIds : /\ before.banks[id].presets = <<5, 7>>
                           /\ banks[id].presets = <<12, 7>>

\* C3: move and remove are atomic with respect to the bank sweep - in no
\* state is the record already moved away or deleted while a bank still
\* references the old slot.
C3_AtomicSweep ==
    ((IsMove \/ IsRemove) /\ SourceExisted /\ presets[call.source] = NoRecord) =>
        \A id \in BankIds : call.source \notin Range(banks[id].presets)

\* C4: reorder_presets whose source slot has no record fails with a
\* not-found error, in either mode, and changes no preset and no bank record.
C4_MissingSource ==
    (call.op = "reorder" /\ ~SourceExisted) =>
        result = "FileNotFoundError" /\ StorageUntouched

C4_Witness ==
    /\ call.op = "reorder" /\ ~SourceExisted
    /\ presets[call.target] # NoRecord
    /\ \E id \in BankIds : call.target \in Range(banks[id].presets)
    /\ result = "FileNotFoundError"

\* C5 (as claimed): remove_preset of a slot without a record fails, reports
\* the failure to the caller and leaves the storage unmutated.
C5_RemoveMissingReported ==
    (IsRemove /\ ~SourceExisted) => result # "ok" /\ StorageUntouched

\* C5 (amended): remove_preset of a slot without a record returns normally,
\* reporting nothing, and leaves the storage unmutated.
C5_RemoveMissingSilent ==
    (IsRemove /\ ~SourceExisted) => result = "ok" /\ StorageUntouched

C5_Witness ==
    /\ IsRemove /\ ~SourceExisted /\ result = "ok"
    /\ \E n \in Slots : presets[n] # NoRecord
    /\ \E id \in BankIds : banks[id] = Malformed

\* C6: a clone of an existing source leaves the record at the source, makes
\* the target hold an identical record, and changes no bank record.
C6_CloneFrame ==
    (IsClone /\ SourceExisted) =>
        /\ presets[call.source] = before.presets[call.source]
        /\ presets[call.target] = before.presets[call.source]
        /\ banks = before.banks

C6_Witness ==
    /\ IsClone /\ SourceExisted /\ result = "ok"
    /\ call.source # call.target
    /\ before.presets[call.target] \notin {NoRecord, before.presets[call.source]}
    /\ presets[call.target] = presets[call.source]
    /\ \E id \in BankIds : {call.source, call.target} \subseteq Range(banks[id].presets)

(***************************************************************************)
(*                     GESTURES: the claims                                *)
(***************************************************************************)

TapGestures == {"TAP", "DOUBLE_TAP", "TRIPLE_TAP"}
IsTapGesture(e) == e.ev \in TapGestures

CountEv(L, ev) == Cardinality({i \in DOMAIN L : L[i].ev = ev})
PendingFalling(key) ==
    Cardinality({i \in DOMAIN event_queue : event_queue[i] = <<key, "FALLING">>})

\* what the step appended to the log of a key
NewlyFired(key) == SubSeq(log'[key], Len(log[key]) + 1, Len(log'[key]))

\* C7: auto-repeat idempotence - a falling edge received while the control
\* is already down emits no Press and changes no timing state, and Press is
\* emitted only for falling edges received while the control was up (every
\* such edge is either still queued or has produced its one Press).
C7_AutoRepeat ==
    /\ [][\A key \in Keys :
            (edges' = edges + 1 /\ raw' = <<key, "FALLING">> /\ key_states[key])
            => UNCHANGED <<buttons, event_queue, log, key_states>>]_vars
    /\ [](\A key \in Keys :
            CountEv(log[key], "PRESS") + PendingFalling(key) = accepted[key])

\* witness of C7: two edges were received, the second a falling edge on a key
\* that the first had already put down; only the first produced a Press.
C7_Witness ==
    \E key \in Keys :
      /\ edges = 2 /\ raw = <<key, "FALLING">> /\ key_states[key]
      /\ accepted[key] = 1
      /\ event_queue = <<>>
      /\ Len(log[key]) = 1 /\ log[key][1].ev = "PRESS" /\ log[key][1].at < now

\* C8: whenever the timeout check finds a control's tap window expired with
\* a pending tap count c > 0, exactly one gesture is emitted for the control,
\* Tap for 1, DoubleTap for 2, TripleTap for 3 or more, and the tap count and
\* the tap timer are cleared.
C8_TapGesture ==
    [][(pc = "run" /\ pc' = "sleep") =>
         \A key \in Keys :
           LET c == buttons[key].tap_count
               start == buttons[key].tap_timer_start
           IN (c > 0 /\ start # NoTime /\ now - start > TapTime) =>
                /\ SelectSeq(NewlyFired(key), IsTapGesture)
                     = <<Fired(CASE c = 1 -> "TAP"
                                 [] c = 2 -> "DOUBLE_TAP"
                                 [] OTHER -> "TRIPLE_TAP", now)>>
                /\ buttons'[key].tap_count = 0
                /\ buttons'[key].tap_timer_start = NoTime]_vars

\* witness of C8: four short presses have just been answered by one
\* TripleTap
C8_Witness ==
    \E key \in Keys :
      /\ pc = "sleep"
      /\ Len(log[key]) = 9
      /\ log[key][9] = Fired("TRIPLE_TAP", now)
      /\ CountEv(log[key], "RELEASE") = 4
      /\ buttons[key].tap_count = 0 /\ buttons[key].tap_timer_start = NoTime

\* n short presses in a row starting at log index s: Press, Release pairs,
\* each held for less than the long-press time, each later release no later
\* than the end of the tap window opened by the release before it
Chain(L, s, n) ==
    /\ \A i \in 0..(n - 1) :
         /\ L[s + 2 * i].ev = "PRESS"
         /\ L[s + 2 * i + 1].ev = "RELEASE"
         /\ L[s + 2 * i + 1].at - L[s + 2 * i].at < LongPressTime
    /\ \A i \in 1..(n - 1) :
         L[s + 2 * i + 1].at - L[s + 2 * i - 1].at <= TapTime

\* the control has no tap pending just before log index s
IdleBefore(L, s) ==
    \/ s = 1
    \/ s >= 3 /\ IsTapGesture(L[s - 1]) /\ L[s - 2].ev = "RELEASE"

\* C9: k >= 1 consecutive short presses on one control emit Press, Release
\* k times and then exactly one tap gesture, the one for k, which comes only
\* after the tap window since the last release has elapsed, never between
\* the pairs.
C9_ShortPresses ==
    \A key \in Keys :
      LET L == log[key]
      IN \A s \in DOMAIN L : \A n \in 1..MaxEdges :
           LET e == s + 2 * n - 1
           IN (IdleBefore(L, s) /\ e <= Len(L) /\ Chain(L, s, n)) =>
                /\ e < Len(L) =>
                     \/ L[e + 1].ev = "PRESS"
                     \/ /\ L[e + 1].ev = (CASE n = 1 -> "TAP"
                                            [] n = 2 -> "DOUBLE_TAP"
                                            [] OTHER -> "TRIPLE_TAP")
                        /\ L[e + 1].at - L[e].at > TapTime
                /\ (e + 1 < Len(L) /\ L[e + 1].ev # "PRESS") =>
                     L[e + 2].ev = "PRESS"
                /\ (pc = "sleep" /\ now - L[e].at > TapTime) => e < Len(L)

\* witness of C9: two short presses within the tap window, then DoubleTap
C9_Witness ==
    \E key \in Keys :
      LET L == log[key]
      IN /\ Len(L) = 5
         /\ Chain(L, 1, 2)
         /\ L[4].at > L[2].at
         /\ L[5].ev = "DOUBLE_TAP"

\* C10: for every press during which the control stays down for at least the
\* long-press time, exactly one LongPress is emitted for that press (never
\* zero, never more than one), and the tap count is zero afterwards.
C10_ExactlyOneLongPress ==
    \A key \in Keys :
      LET L == log[key]
      IN \A i \in DOMAIN L : L[i].ev = "PRESS" =>
           LET later == {j \in DOMAIN L : j > i /\ L[j].ev = "RELEASE"}
               released == later # {}
               j == IF released THEN CHOOSE m \in later : \A q \in later : m <= q
                    ELSE Len(L) + 1
               nLong == Cardinality({m \in DOMAIN L :
                           i < m /\ m < j /\ L[m].ev = "LONG_PRESS"})
           IN /\ nLong <= 1
              /\ (released /\ L[j].at - L[i].at >= LongPressTime) => nLong = 1
              /\ (~released /\ pc = "sleep" /\ now - L[i].at >= LongPressTime)
                   => nLong = 1
              /\ (nLong = 1 /\ \A m \in DOMAIN L : m > i => L[m].ev # "PRESS")
                   => buttons[key].tap_count = 0

\* index of the first Release after log index i, Len(L) + 1 when there is none
ReleaseOf(L, i) ==
    LET later == {j \in DOMAIN L : j > i /\ L[j].ev = "RELEASE"}
    IN IF later = {} THEN Len(L) + 1
       ELSE CHOOSE m \in later : \A q \in later : m <= q

\* C11: a press held for at least the long-press time produces Press, then
\* LongPress, then Release for the control; the Release adds nothing to the
\* tap count and no tap gesture follows from that press.
C11_LongPressOrder ==
    \A key \in Keys :
      LET L == log[key]
      IN \A i \in DOMAIN L :
           LET j == ReleaseOf(L, i)
           IN (L[i].ev = "PRESS" /\ j <= Len(L)
                 /\ L[j].at - L[i].at >= LongPressTime) =>
                /\ \E m \in (i + 1)..(j - 1) : L[m].ev = "LONG_PRESS"
                /\ j = Len(L) => buttons[key].tap_count = 0
                /\ j < Len(L) => L[j + 1].ev = "PRESS"

\* C12: when a press begins with taps pending (the log entry before the
\* Press is the Release of a short press) and is then held to the long-press
\* time, no Tap, DoubleTap or TripleTap is emitted for the pending taps,
\* neither between the Press and the LongPress nor after the LongPress.
C12_LongPressPreemptsTaps ==
    \A key \in Keys :
      LET L == log[key]
      IN \A i \in DOMAIN L : \A m \in DOMAIN L :
           (/\ i >= 3 /\ m > i
            /\ L[i].ev = "PRESS" /\ L[m].ev = "LONG_PRESS"
            /\ \A q \in (i + 1)..(m - 1) : L[q].ev \notin {"PRESS", "RELEASE"}
            /\ L[i - 1].ev = "RELEASE" /\ L[i - 2].ev = "PRESS"
            /\ L[i - 1].at - L[i - 2].at < LongPressTime) =>
               /\ \A q \in (i + 1)..(m - 1) : ~IsTapGesture(L[q])
               /\ \A q \in DOMAIN L :
                    (q > m /\ \A r \in (m + 1)..(q - 1) : L[r].ev # "PRESS")
                      => ~IsTapGesture(L[q])

(***************************************************************************)
(*                     ACTION RECORDS: the claims                          *)
(***************************************************************************)

\* C13: round trip - for every action a of a registered kind (composites
\* nested in composites included), to_dict(from_dict(to_dict(a))) equals
\* to_dict(a): the second dump of an action equals its first dump.
C13_RoundTrip ==
    (Len(dumps) >= 2 /\ dumps[1].type \in Registry) => dumps[2] = dumps[1]

\* C14: an action loaded from a record with an unregistered type tag, at
\* top level or as a child of a composite, executes without raising an
\* error.
C14_UnknownTypeIsNoOp ==
    (aphase = "loaded" /\ outcome # NoOutcome) => outcome.raised = "none"

(***************************************************************************)
(*                   PARAMETER EDITORS: the claims                         *)
(***************************************************************************)

\* C19: for every leaf parameter editor (integer, string, boolean, enum),
\* once the editor has been left via Select the bound parameter holds the
\* editor's value.
C19_WriteBack ==
    (~eopen /\ param # NoParam) => param.value = get_value(editor)

SelectorRange == editor.min_value..editor.max_value

\* C20: the integer selector is cyclic inside its range - next at max_value
\* yields min_value, prev at min_value yields max_value, otherwise the value
\* changes by exactly 1; starting inside [min_value, max_value] the value
\* stays inside, and next then prev (or prev then next) restores the value.
C20_CyclicSelector ==
    (editor.cls \in IntEditors /\ trail # <<>> /\ trail[1].from \in SelectorRange) =>
      /\ \A i \in DOMAIN trail :
           /\ trail[i].to \in SelectorRange
           /\ trail[i].op = "next" =>
                trail[i].to = IF trail[i].from = editor.max_value
                              THEN editor.min_value ELSE trail[i].from + 1
           /\ trail[i].op = "prev" =>
                trail[i].to = IF trail[i].from = editor.min_value
                              THEN editor.max_value ELSE trail[i].from - 1
      /\ \A i \in 1..(Len(trail) - 1) :
           trail[i].op # trail[i + 1].op => trail[i + 1].to = trail[i].from

\* witness of C20: from max_value, next has wrapped to min_value and prev
\* has wrapped back, in a range of more than one value
C20_Witness ==
    /\ editor.cls \in IntEditors
    /\ editor.min_value < editor.max_value
    /\ Len(trail) = 2
    /\ trail[1] = [op |-> "next", from |-> editor.max_value, to |-> editor.min_value]
    /\ trail[2] = [op |-> "prev", from |-> editor.min_value, to |-> editor.max_value]

\* C21: the editors enforce the declared constraints - the value an integer
\* editor writes back to ActionParam.value lies in [min_value, max_value] and
\* the value a string editor writes back contains only characters of the
\* declared character set, whatever value the parameter held when the editor
\* was opened and whatever encoder events came before Select.
C21_DeclaredConstraints ==
    (~eopen /\ param # NoParam) =>
      /\ param.param_type = "int" =>
           param.value.int \in param.options.min_value..param.options.max_value
      /\ param.param_type = "str" =>
           Range(param.value.str) \subseteq Range(param.options.characters)

(***************************************************************************)
(*                      NAVIGATION: the claims                             *)
(***************************************************************************)

\* C15: after startup, for every sequence of dispatched events, the
\* navigation stack is never empty and its bottom element is the Home
\* screen pushed at startup.
C15_HomeAtBottom ==
    /\ state_stack # <<>>
    /\ state_stack[1] = HomeState

\* witness of C15: "Select" in the slot list of "Save Preset" has popped two
\* screens at once and the settings menu is on top of Home again
C15_Witness ==
    /\ Len(state_stack) = 2
    /\ \E i \in DOMAIN navlog :
         /\ navlog[i].op = "pop"
         /\ navlog[i].deep = 2
         /\ navlog[i].before[Len(navlog[i].before)] = "ListItemReplaceState"

Least(a, b) == IF a <= b THEN a ELSE b
\* the on_enter call the log must hold right after entry i
EntersTop(i, after) ==
    /\ i < Len(navlog)
    /\ navlog[i + 1].op = "on_enter"
    /\ navlog[i + 1].cls = after[Len(after)]
    /\ navlog[i + 1].depth = Len(after)
StackCalls == {i \in DOMAIN navlog : navlog[i].op \in {"pop", "push"}}

\* C16: pop_state(n) on a stack of depth d removes exactly min(n, d-1)
\* screens from the top, never the bottom one, and then calls on_enter of
\* the screen that is on top afterwards; push_state(s) appends s and calls
\* s.on_enter.  The stack is left as the last of these calls made it.
C16_PushPop ==
    /\ \A i \in StackCalls :
         LET e == navlog[i]
             d == Len(e.before)
         IN /\ e.op = "pop" =>
                 /\ d >= 1
                 /\ e.after = SubSeq(e.before, 1, d - Least(e.deep, d - 1))
                 /\ EntersTop(i, e.after)
            /\ e.op = "push" =>
                 /\ e.after = Append(e.before, e.pushed)
                 /\ EntersTop(i, e.after)
    /\ StackCalls # {} =>
         LET last == CHOOSE i \in StackCalls : \A j \in StackCalls : j <= i
         IN classes(state_stack) = navlog[last].after

\* witness of C16: pop_state(3) on a stack of depth 3 has removed two
\* screens and entered Home
C16_Witness ==
    /\ navlog # <<>>
    /\ navlog[1].op = "pop"
    /\ navlog[1].deep = 3
    /\ Len(navlog[1].before) = 3
    /\ state_stack = <<HomeState>>

ListLike(s) ==
    s.cls \notin {"HomeState", "DummyState", "ActionParamIntSelectorState"}
IsStringCreator(s) == s.cls \in {"SavePresetState", "ActionParamStringSelectorState"}

\* C17: scroll invariant - in every list-like screen, from construction
\* onwards and after any sequence of up / down events and re-entries, the
\* selected index lies in the window that starts at scroll_offset, and
\* before the end of the item list.
C17_ScrollInvariant ==
    \A i \in DOMAIN state_stack :
        LET s == state_stack[i]
        IN ListLike(s) =>
             /\ s.scroll_offset <= s.selected_index
             /\ s.selected_index < s.scroll_offset
                    + (IF IsStringCreator(s) THEN VISIBLE_WIDTH ELSE MAX_LINES)
             /\ s.selected_index
                    < (IF IsStringCreator(s) THEN Len(s.characters) ELSE Len(s.items))

\* the object the screen is built on is there
BackingPresent(s) ==
    CASE s.cls = "ActionEditorState" -> s.action # NoneRef
      [] s.cls = "ButtonSettingsMenuState" ->
           /\ controls[s.control_id].kind # "absent"
           /\ dict_has(controls[s.control_id].actions, s.control_event)
      [] s.cls = "ControlSettingsMenuState" -> controls[s.control_id].kind # "absent"
      [] OTHER -> TRUE

\* C18: a screen whose backing object is absent when on_enter runs pops
\* itself without rendering and without raising an error - once the event
\* is handled no error has been raised, no such screen is left on the stack
\* and none has been rendered.
C18_AbsentBackingPopsItself ==
    /\ raised = "none"
    /\ \A i \in DOMAIN state_stack : BackingPresent(state_stack[i])
    /\ \A i \in DOMAIN navlog :
         (navlog[i].op = "on_enter" /\ i < Len(navlog) /\ navlog[i + 1].op = "pop")
            => navlog[i + 1].after = SubSeq(navlog[i + 1].before, 1, navlog[i].depth - 1)

\* the positions of the screens that were below the top when the pass
\* started and are still on the stack at its end: the stack never got
\* shorter than after the shortest pop of the pass
KeptBelow ==
    LET pops == {i \in DOMAIN navlog' : navlog'[i].op = "pop"}
        depths == {Len(state_stack) - 1} \cup {Len(navlog'[i].after) : i \in pops}
    IN 1..(CHOOSE n \in depths : \A k \in depths : n <= k)

\* C22: each dispatched event is delivered to exactly the screen on top of
\* the stack at dispatch time - the pass logs one recipient, the top - and
\* the screens below the top keep their selection index and scroll offset.
C22_OnlyTopReceives ==
    [][/\ navlog' # <<>>
       /\ navlog'[1].op = "handle_event"
       /\ navlog'[1].cls = state_stack[Len(state_stack)].cls
       /\ \A i \in 2..Len(navlog') : navlog'[i].op # "handle_event"
       /\ \A i \in KeptBelow :
            "selected_index" \in DOMAIN state_stack[i] =>
              /\ state_stack'[i].selected_index = state_stack[i].selected_index
              /\ state_stack'[i].scroll_offset = state_stack[i].scroll_offset]_vars

\* witness of C22: an event moved the cursor of the top screen, the third on
\* the stack, while the menu below it stays on its second item
C22_Witness ==
    /\ Len(state_stack) >= 3
    /\ navlog[1].op = "handle_event"
    /\ \A i \in DOMAIN navlog : navlog[i].op \notin {"pop", "push"}
    /\ "selected_index" \in DOMAIN state_stack[Len(state_stack)]
    /\ state_stack[Len(state_stack)].selected_index > 0
    /\ "selected_index" \in DOMAIN state_stack[2]
    /\ state_stack[2].selected_index > 0

\* C23: in the list parameter editor, 'Add Item' and then a kind K appends
\* exactly one new action of kind K to the end of the child list, leaves the
\* existing children unchanged and in the same order, and returns to the
\* list editor, whose item list then contains the new child.
C23_AddItemAppends ==
    [][(/\ state_stack[Len(state_stack)].cls = "ListItemCreatorState"
        /\ navlog'[1].event = "ENCODER_SELECT") =>
         LET s == state_stack[Len(state_stack)]
             K == get_selected(s.items, s.selected_index)
             owner == deref(controls, s.item_add_func)
             old == owner.actions
             new == deref(controls', s.item_add_func).actions
             editor_below == state_stack'[Len(state_stack')]
         IN /\ Len(new) = Len(old) + 1
            /\ SubSeq(new, 1, Len(old)) = old
            /\ new[Len(new)].type = action_cls(K)
            /\ controls' = assigned(controls, s.item_add_func,
                                    [owner EXCEPT !.actions = new])
            /\ state_stack' = [SubSeq(state_stack, 1, Len(state_stack) - 1)
                                 EXCEPT ![Len(state_stack) - 1] = editor_below]
            /\ editor_below.cls = "ActionParamListEditorState"
            /\ editor_below.param = s.item_add_func
            /\ Len(editor_below.items) = Len(new) + 2
            /\ editor_below.items[Len(new)] =
                  ToString(Len(new)) \o ":" \o TITLE(action_cls(K))]_vars

\* witness of C23: a composite kind was added to a list that already had two
\* children, and the list editor is on top again
C23_Witness ==
    /\ navlog[1].op = "handle_event"
    /\ navlog[1].cls = "ListItemCreatorState"
    /\ navlog[1].event = "ENCODER_SELECT"
    /\ state_stack[Len(state_stack)].cls = "ActionParamListEditorState"
    /\ LET value == deref(controls, state_stack[Len(state_stack)].param).actions
       IN Len(value) = 3 /\ value[3].type = "CompositeAction"

\* the calls of the pass that write to storage
StorageWrites ==
    {i \in DOMAIN navlog' :
        navlog'[i].op \in {"save_preset", "save_current_preset_index"}}

\* C24: persisted storage (the preset files and the current-index marker)
\* changes only on the Save Preset confirmation, the Select on the list of
\* presets to replace; no other event or screen transition makes a call
\* that writes to storage or changes the set of preset files.
C24_NoAutosave ==
    [][(StorageWrites # {} \/ preset_dir' # preset_dir) =>
         /\ state_stack[Len(state_stack)].cls = "ListItemReplaceState"
         /\ navlog'[1].event = "ENCODER_SELECT"]_vars

\* witness of C24: the preset in memory was edited by an add, and a later
\* confirmation wrote the preset file and the marker
C24_Witness ==
    /\ navlog[1].op = "handle_event"
    /\ navlog[1].cls = "ListItemReplaceState"
    /\ navlog[1].event = "ENCODER_SELECT"
    /\ adds = 1
    /\ \E i \in DOMAIN navlog : navlog[i].op = "save_preset"
    /\ \E i \in DOMAIN navlog : navlog[i].op = "save_current_preset_index"

\* C30: whenever a preset is active its controls map holds one ControlModel
\* for each of the six Control identifiers; a stored preset that lacks a
\* control gets a default entry when it is loaded.
C30_EveryControlHasModel ==
    \A id \in Range(ControlIds) : controls[id].kind # "absent"

(***************************************************************************)
(*                     THE THREE WORKERS: the claims                       *)
(***************************************************************************)

\* the calls the render thread made on the display for commands of the UI
\* queue: all but the clear of __init__ and the clear at its exit
Applied == SubSeq(lcd, 2, Len(lcd) - (IF ui_thread = "exited" THEN 1 ELSE 0))

\* C25: FIFO per queue - the display calls are made in exactly the order
\* the commands were put on the UI queue, and the events are dispatched in
\* exactly the order they were put on the event queue: what was put is what
\* was taken followed by what the queue still holds, so nothing is
\* reordered, duplicated or lost.
C25_FifoPerQueue ==
    /\ put_log = got_log \o device_queue
    /\ [i \in DOMAIN ui_log |-> display_call(ui_log[i])]
         = Applied \o [i \in DOMAIN ui_queue |-> display_call(ui_queue[i])]

\* witness of C25: an event was dispatched while a different, later one
\* waits in the event queue, and commands were applied while others wait
C25_Witness ==
    /\ Len(got_log) = 1
    /\ Len(device_queue) = 1
    /\ got_log[1] # device_queue[1]
    /\ Len(Applied) >= 2
    /\ Len(ui_queue) >= 2

\* C26: after the shutdown flag is set, the capture thread, the render
\* thread and the main loop each end and stop() returns; no thread waits
\* for ever on a queue or in a join.
C26_ShutdownTerminates ==
    shutdown_event ~> (/\ main_thread = "stopped"
                       /\ input_thread \in {"exited", "died"}
                       /\ ui_thread = "exited")

\* witness of C26: stop() has returned although events were still queued
C26_Witness ==
    /\ main_thread = "stopped"
    /\ input_thread = "exited"
    /\ device_queue # <<>>
    /\ ui_queue # <<>>

\* C27: on shutdown the render thread makes one final clear as its last
\* call on the display, and stop() returns only after the capture thread
\* and the render thread have ended.
C27_FinalClearThenReturn ==
    /\ ui_thread = "exited" =>
         /\ lcd[Len(lcd)] = FinalClear
         /\ \A i \in 1..(Len(lcd) - 1) : lcd[i] # FinalClear
    /\ lcd # <<>> /\ lcd[Len(lcd)] = FinalClear => ui_thread = "exited"
    /\ main_thread = "stopped" =>
         /\ input_thread \in {"exited", "died"}
         /\ ui_thread = "exited"

\* witness of C27: stop() has returned, the display was written before the
\* final clear
C27_Witness ==
    /\ main_thread = "stopped"
    /\ Len(lcd) >= 4
    /\ lcd[Len(lcd)] = FinalClear
    /\ lcd[Len(lcd) - 1].op = "write_string"

\* C28: single writer - the navigation stack and the preset's objects change
\* only in a step of the main loop that dispatches an event; the steps of
\* the capture thread, of the keyboard hooks and of the render thread leave
\* them as they are, in every interleaving.
C28_SingleWriter ==
    [][/\ (state_stack' # state_stack \/ controls' # controls) =>
            (main_thread = "loop" /\ got_log' = Append(got_log, Head(device_queue)))
       /\ (inputs' # inputs \/ lcd' # lcd \/ ui_thread' # ui_thread
             \/ input_thread' # input_thread) =>
            UNCHANGED <<state_stack, controls>>]_vars

\* witness of C28: the main loop has pushed a screen while the capture
\* thread is in a pass and the render thread waits for a command
C28_Witness ==
    /\ Len(state_stack) = 2
    /\ input_thread = "work"
    /\ ui_thread = "get"
    /\ Len(put_log) = 2

\* C29: every semantic event the gesture engine emits for a configured
\* control (Press, Release, Tap, DoubleTap, TripleTap, LongPress) puts an
\* entry on the event queue: whenever the capture thread is in a pass, _fire
\* called with any of them would put at least one.
C29_EveryEventQueued ==
    input_thread = "work" =>
      \A key \in DOMAIN key_map, event \in ButtonEvents :
         fire(World, key, event).puts # <<>>

(***************************************************************************)
(*                       STARTUP: the claims                               *)
(***************************************************************************)

\* a marker file names a number that has no file
StaleMarker(d) ==
    \/ d.current_preset.exists /\ d.presets[d.current_preset.number] = NoFile
    \/ d.current_bank.exists /\ d.banks[d.current_bank.number] = NoFile

\* every file that exists can be read as a record
Undamaged(d) ==
    /\ \A n \in StartSlots : d.presets[n].kind \in {"absent", "noname", "named"}
    /\ \A n \in StartBanks : d.banks[n].kind \in {"absent", "named"}

\* C31: a missing record never crashes the system - load_preset, load_bank,
\* load_current_preset_index and load_current_bank_index return None when
\* the file does not exist, and a startup whose current-preset or
\* current-bank marker names a slot without a record still reaches the
\* Home screen.
C31_MissingRecordNeverCrashes ==
    /\ returned.op = "load_preset"
         /\ file_at(disk.presets, returned.number) = NoFile
         => returned.value = NoneResult
    /\ returned.op = "load_bank"
         /\ file_at(disk.banks, returned.number) = NoFile
         => returned.value = NoneResult
    /\ returned.op = "load_current_preset_index" /\ ~disk.current_preset.exists
         => returned.value = NoneResult
    /\ returned.op = "load_current_bank_index" /\ ~disk.current_bank.exists
         => returned.value = NoneResult
    /\ returned.op = "MidiNodeDevice" /\ StaleMarker(disk) /\ Undamaged(disk)
         => returned.value = Started("HomeState")

\* the slots that hold a preset file
Stored(files) == {n \in DOMAIN files : files[n] # NoFile}

\* C32: get_preset_list returns exactly one {number, name} entry for each
\* stored preset file, in slot order; a file that cannot be parsed is
\* listed with the name "Error" and the entries of the other files are
\* returned all the same.
C32_ListingCompleteOrdered ==
    returned.op = "get_preset_list" =>
      /\ returned.value.kind = "list"
      /\ LET items == returned.value.items
         IN /\ Len(items) = Cardinality(Stored(disk.presets))
            /\ \A i, j \in DOMAIN items : i < j => items[i].number < items[j].number
            /\ \A i \in DOMAIN items :
                 /\ items[i].number \in Stored(disk.presets)
                 /\ items[i].name =
                      LET file == disk.presets[items[i].number]
                      IN IF file.kind \in {"corrupt", "array"} THEN "Error"
                         ELSE IF file.kind = "noname" THEN "Unnamed"
                         ELSE file.name

\* witness of C32: three files are listed, the second cannot be parsed and
\* the third is listed with its name
C32_Witness ==
    /\ returned.op = "get_preset_list"
    /\ Len(returned.value.items) = 3
    /\ returned.value.items[2] = [number |-> 12, name |-> "Error"]
    /\ returned.value.items[3] = [number |-> 100, name |-> "hundred"]

(***************************************************************************)
(*                     LIST WIDGETS: the claims                            *)
(***************************************************************************)

\* the cursor of a widget and the length of its list
Sel(s) == IF s.cls \in OrderingClasses THEN s.current_index ELSE s.selected_index
Size(s) == IF s.cls \in CharClasses THEN Len(s.characters) ELSE Len(s.items)
\* the index is drawn by a window that starts at scroll_offset
Visible(index, scroll_offset, cls) ==
    scroll_offset <= index /\ index < scroll_offset + Window(cls)

\* C33: in every list-like screen and widget one down / up step changes
\* scroll_offset by at most one, and only when the selection would
\* otherwise leave the visible window; a step up at the first item or down
\* at the last item changes neither the selection nor the scroll offset.
C33_ScrollByOne ==
    last_step.dir \in {"down", "up"} =>
      LET old == last_step.was
          at_end == IF last_step.dir = "down" THEN Sel(old) >= Size(old) - 1
                    ELSE Sel(old) <= 0
      IN /\ at_end => Sel(widget) = Sel(old)
                       /\ widget.scroll_offset = old.scroll_offset
         /\ widget.scroll_offset - old.scroll_offset \in {-1, 0, 1}
         /\ widget.scroll_offset # old.scroll_offset =>
               ~Visible(Sel(widget), old.scroll_offset, old.cls)

\* C34: in the editor of a child action opened from a list editor, Delete
\* and then 'Confirm Delete' removes exactly that child from the parent
\* list, the other children keeping their order, and leaves the list editor
\* on top, the child editor having popped itself; 'Cancel' leaves the list
\* as it is and the child editor on top.
C34_DeleteChild ==
    [][(/\ state_stack[Len(state_stack)].cls = "BooleanWithCallbackState"
        /\ navlog'[1].event = "ENCODER_SELECT") =>
         LET n == Len(state_stack)
             s == state_stack[n]
             chosen == get_selected(s.items, s.selected_index)
             child == state_stack[n - 1].action
             list == state_stack[n - 2].param
             position == child.path[Len(child.path)]
             owner == deref(controls, list)
             old == owner.actions
             top == state_stack'[Len(state_stack')]
         IN /\ state_stack[n - 1].cls = "ActionEditorState"
            /\ state_stack[n - 2].cls = "ActionParamListEditorState"
            /\ chosen \in {"Confirm Delete", "Cancel"}
            /\ chosen = "Confirm Delete" =>
                 LET new == deref(controls', list).actions
                 IN /\ Len(new) = Len(old) - 1
                    /\ \A i \in DOMAIN new :
                          new[i] = IF i < position THEN old[i] ELSE old[i + 1]
                    /\ controls' = assigned(controls, list,
                                            [owner EXCEPT !.actions = new])
                    /\ Len(state_stack') = n - 2
                    /\ SubSeq(state_stack', 1, n - 3) = SubSeq(state_stack, 1, n - 3)
                    /\ top.cls = "ActionParamListEditorState"
                    /\ top.param = list
                    /\ Len(top.items) = Len(new) + 2
            /\ chosen = "Cancel" =>
                 /\ controls' = controls
                 /\ Len(state_stack') = n - 1
                 /\ SubSeq(state_stack', 1, n - 2) = SubSeq(state_stack, 1, n - 2)
                 /\ top.cls = "ActionEditorState"
                 /\ top.action = child]_vars

\* witness of C34: a child added as the third of the list was deleted
\* again; the list editor is on top and the two older children are left in
\* their order
C34_Witness ==
    /\ navlog[1].op = "handle_event"
    /\ navlog[1].cls = "BooleanWithCallbackState"
    /\ navlog[1].event = "ENCODER_SELECT"
    /\ state_stack[Len(state_stack)].cls = "ActionParamListEditorState"
    /\ adds = 1
    /\ LET value == deref(controls, state_stack[Len(state_stack)].param).actions
       IN Len(value) = 2 /\ value[1].type = "InfoAction"

\* the entries of the pass's log with the given op, in order
Calls(calls, op) == SelectSeq(calls, LAMBDA c : c.op = op)

\* C35: Save Preset flow - confirming the name pushes the slot chooser;
\* Select in the chooser with a name that is not blank writes the preset
\* under the chosen index, makes it the current preset index and writes the
\* marker, then pops the chooser and the namer so that the Settings menu is
\* on top; with a blank name nothing is written and the same two screens
\* are popped.
C35_SavePresetFlow ==
    [][LET n == Len(state_stack)
           s == state_stack[n]
           top == state_stack'[Len(state_stack')]
           select == navlog'[1].event = "ENCODER_SELECT"
       IN /\ (/\ s.cls = "SavePresetState" /\ select
               /\ get_selected(s.characters, s.selected_index) = Tick) =>
                /\ state_stack' = Append(state_stack, top)
                /\ top.cls = "ListItemReplaceState"
                /\ top.return_to_previous_depth = 2
                /\ StorageWrites = {}
                /\ UNCHANGED <<preset_dir, current_preset_index, controls>>
          /\ (s.cls = "ListItemReplaceState" /\ select) =>
                /\ state_stack[n - 1].cls = "SavePresetState"
                /\ state_stack[n - 2].cls = "SettingsMenuState"
                /\ Len(state_stack') = n - 2
                /\ SubSeq(state_stack', 1, n - 3) = SubSeq(state_stack, 1, n - 3)
                /\ top.cls = "SettingsMenuState"
                /\ UNCHANGED controls
                /\ Len(Calls(navlog', "get_string")) = 1
                /\ IF Calls(navlog', "get_string")[1].named
                   THEN /\ Calls(navlog', "save_preset")
                             = <<[op |-> "save_preset", number |-> s.selected_index]>>
                        /\ Calls(navlog', "save_current_preset_index")
                             = <<[op |-> "save_current_preset_index",
                                  number |-> s.selected_index]>>
                        /\ current_preset_index' = s.selected_index
                        /\ preset_dir' = preset_dir \cup {s.selected_index}
                   ELSE /\ StorageWrites = {}
                        /\ UNCHANGED <<preset_dir, current_preset_index>>]_vars

\* witness of C35: the preset was saved under the second slot of the list
\* and the Settings menu is on top again
C35_Witness ==
    /\ navlog[1].op = "handle_event"
    /\ navlog[1].cls = "ListItemReplaceState"
    /\ navlog[1].event = "ENCODER_SELECT"
    /\ state_stack[Len(state_stack)].cls = "SettingsMenuState"
    /\ Len(state_stack) = 2
    /\ current_preset_index = 1
    /\ Calls(navlog, "save_current_preset_index")
         = <<[op |-> "save_current_preset_index", number |-> 1]>>

\* C36: Select in the action kind selector - choosing the kind the binding
\* already has leaves the existing action and its parameter values as they
\* are; choosing another kind replaces the binding by a newly constructed
\* action of that kind with default parameters; in both cases exactly one
\* screen is popped and no other binding of any control changes.
C36_KindSelector ==
    [][LET n == Len(state_stack)
           s == state_stack[n]
       IN (/\ s.cls = "ActionSelectorState"
           /\ navlog'[1].event = "ENCODER_SELECT") =>
            LET kind == action_cls(dict_get(s.action_types,
                                            s.items[s.selected_index + 1]))
                bound == controls[s.control_id].actions
                bound_after == controls'[s.control_id].actions
                existing == dict_get(bound, s.control_event)
            IN /\ Len(state_stack') = n - 1
               /\ SubSeq(state_stack', 1, n - 2) = SubSeq(state_stack, 1, n - 2)
               /\ state_stack'[n - 1].cls = state_stack[n - 1].cls
               /\ dict_get(bound_after, s.control_event)
                    = IF existing.type = kind THEN existing
                      ELSE construct(kind, NoData)
               /\ dict_keys(bound_after) = dict_keys(bound)
               /\ \A e \in Range(dict_keys(bound)) \ {s.control_event} :
                     dict_get(bound_after, e) = dict_get(bound, e)
               /\ controls'[s.control_id].kind = controls[s.control_id].kind
               /\ \A id \in Range(ControlIds) \ {s.control_id} :
                     controls'[id] = controls[id]]_vars

\* witness of C36: the selector has just replaced the PRESS action of
\* button 1 by a Send PC action with its default program, and the RELEASE
\* action of the same button is the one the preset was loaded with
C36_Witness ==
    /\ navlog[1].op = "handle_event"
    /\ navlog[1].cls = "ActionSelectorState"
    /\ navlog[1].event = "ENCODER_SELECT"
    /\ state_stack[Len(state_stack)].cls = "ButtonSettingsMenuState"
    /\ dict_get(controls["BUTTON_1"].actions, "PRESS") = construct("PCAction", NoData)
    /\ dict_has(controls["BUTTON_1"].actions, "RELEASE")
    /\ dict_get(controls["BUTTON_1"].actions, "RELEASE").info = "x"

(***************************************************************************)
(*              GESTURES: a clock that starts at 0                         *)
(***************************************************************************)

C39_ReleaseWhateverTheTime ==
    \A key \in Keys :
      /\ event_queue = <<>> =>
           /\ CountEv(log[key], "RELEASE")
                = accepted[key] - (IF key_states[key] THEN 1 ELSE 0)
           /\ ~key_states[key] => buttons[key].press_timestamp = NoTime
      /\ (pc = "sleep" /\ buttons[key].tap_count > 0) =>
           /\ buttons[key].tap_timer_start # NoTime
           /\ now - buttons[key].tap_timer_start <= TapTime

(***************************************************************************)
(*               THE THREE WORKERS: the shutdown claims                    *)
(***************************************************************************)

\* C40: no UI command is dropped at shutdown - every WriteText/Clear command
\* put on the UI queue before the shutdown flag is set is applied to the
\* display before the render worker performs its final clear and exits:
\* once the render worker has exited, the calls it made on the display for
\* commands are those of all the commands that were put, in their order
\* (the main loop puts commands only while the flag is not set).
C40_NoCommandDropped ==
    ui_thread = "exited" =>
      /\ ui_queue = <<>>
      /\ SelectSeq(lcd, LAMBDA c : c.by = "command")
           = [i \in DOMAIN ui_log |-> display_call(ui_log[i])]

(***************************************************************************)
(*          THE KEY HOOKS AND THE CAPTURE WORKER: the claims               *)
(***************************************************************************)

\* C37: input order is preserved across input sources - if the Select
\* key's falling edge occurs before an encoder step, ENCODER_SELECT is put
\* on the event queue before the encoder event, in every interleaving of
\* the hook callbacks and the polling loop: when an encoder event is put,
\* no accepted falling edge of the Select key is still waiting for the
\* capture worker.
C37_InputOrderPreserved ==
    [][(/\ Len(put_log') = Len(put_log) + 1
        /\ put_log'[Len(put_log')] \in {"ENCODER_CW", "ENCODER_CCW"}) =>
          \A key \in SelectKeys :
            \A i \in DOMAIN event_queue : event_queue[i] # <<key, "FALLING">>]_vars

====
